---- MODULE Spec2Model ----
(***************************************************************************)
(* kconfig-hardened-check: the check objects (OptCheck, VersionCheck, OR,  *)
(* AND), the kconfig and cmdline parsers, population and evaluation of the *)
(* checklist, as in src/kconfig_hardened_check/__init__.py.                *)
(*                                                                         *)
(* Python strings are TLA+ strings (Len, SubSeq and \o act on them).       *)
(* Python's None is the empty tuple <<>> and a present string s is <<s>>,  *)
(* so that None differs from every string, the empty string included.      *)
(***************************************************************************)
EXTENDS Integers, Sequences, FiniteSets, TLC

VARIABLES
    pc,                     \* where main() stands
    arch,                   \* None, or the architecture detect_arch returned
    kconfig_file,           \* f.readlines() of the --config file
    cmdline_file,           \* None, or the lines of the --cmdline file
    line_no,                \* index of the next line of parse_kconfig_file's loop
    parsed_kconfig_options, \* OrderedDict: sequence of <<option, value>>
    parsed_cmdline_options, \* OrderedDict: sequence of <<name, value>>
    kernel_version,         \* the (major, minor) tuple handed to the version pass
    objs,                   \* the heap of check objects, by identity 1..Len(objs)
    stack,                  \* constructed objects not yet consumed by a constructor or l += [..]
    config_checklist,       \* the list l: identities of the top-level checks
    exit_msg,               \* None, or the message of sys.exit / of the raised error
    check_trace             \* the identities whose check() ran in perform_checks, in call order

vars == <<pc, arch, kconfig_file, cmdline_file, line_no, parsed_kconfig_options,
          parsed_cmdline_options, kernel_version, objs, stack, config_checklist,
          exit_msg, check_trace>>

----------------------------------------------------------------------------
(* Bounds of the model *)

\* longest --config file, in lines
MaxLines == 3
\* most check objects constructed for one checklist
MaxObjs == 5
\* most children given to one OR or AND
MaxOpts == 3

----------------------------------------------------------------------------
(* Python values and string methods *)

None == <<>>
Some(s) == <<s>>

\* the slice s[i-1:i]: the character at index i, empty outside the string
Char(s, i) == IF i \in 1..Len(s) THEN SubSeq(s, i, i) ELSE ""

\* s[n:]
Drop(s, n) == SubSeq(s, n + 1, Len(s))

\* str.startswith
StartsWith(s, p) == Len(s) >= Len(p) /\ SubSeq(s, 1, Len(p)) = p

\* the characters str.strip() and str.split() treat as whitespace
Whitespace == {" ", "\t", "\n", "\r"}

RECURSIVE LStrip(_)
LStrip(s) == IF Len(s) > 0 /\ Char(s, 1) \in Whitespace THEN LStrip(Drop(s, 1)) ELSE s

RECURSIVE RStrip(_)
RStrip(s) ==
    IF Len(s) > 0 /\ Char(s, Len(s)) \in Whitespace
    THEN RStrip(SubSeq(s, 1, Len(s) - 1))
    ELSE s

\* str.strip()
Strip(s) == RStrip(LStrip(s))

\* index of the first occurrence of the character c in s, 0 when there is none
RECURSIVE FindFrom(_, _, _)
FindFrom(s, c, i) ==
    IF i > Len(s) THEN 0
    ELSE IF Char(s, i) = c THEN i
    ELSE FindFrom(s, c, i + 1)

Find(s, c) == FindFrom(s, c, 1)

\* s.split(c, 1): one part when c does not occur, else the parts around the first c
Split1(s, c) ==
    LET i == Find(s, c)
    IN  IF i = 0 THEN <<s>> ELSE <<SubSeq(s, 1, i - 1), Drop(s, i)>>

\* s.split(): the maximal runs of non-whitespace characters
RECURSIVE SplitWs(_, _, _)
SplitWs(s, i, cur) ==
    IF i > Len(s) THEN (IF cur = "" THEN <<>> ELSE <<cur>>)
    ELSE IF Char(s, i) \in Whitespace
         THEN (IF cur = "" THEN <<>> ELSE <<cur>>) \o SplitWs(s, i + 1, "")
         ELSE SplitWs(s, i + 1, cur \o Char(s, i))

Split(s) == SplitWs(s, 1, "")

\* the regular expression class [a-zA-Z0-9_]
WordChars ==
    {"a","b","c","d","e","f","g","h","i","j","k","l","m","n","o","p","q","r","s","t",
     "u","v","w","x","y","z","A","B","C","D","E","F","G","H","I","J","K","L","M","N",
     "O","P","Q","R","S","T","U","V","W","X","Y","Z","0","1","2","3","4","5","6","7",
     "8","9","_"}

\* the index after the longest run of [a-zA-Z0-9_] starting at s[i]
RECURSIVE SkipWord(_, _)
SkipWord(s, i) ==
    IF i <= Len(s) /\ Char(s, i) \in WordChars THEN SkipWord(s, i + 1) ELSE i

\* str(n) for an integer n >= 0
Digit(d) == SubSeq("0123456789", d + 1, d + 1)

RECURSIVE Str(_)
Str(n) == IF n < 10 THEN Digit(n) ELSE Str(n \div 10) \o Digit(n % 10)

\* the least i >= from at which sub occurs in s, or 0
RECURSIVE IndexOf(_, _, _)
IndexOf(s, sub, from) ==
    IF from + Len(sub) - 1 > Len(s) THEN 0
    ELSE IF SubSeq(s, from, from + Len(sub) - 1) = sub THEN from
    ELSE IndexOf(s, sub, from + 1)

\* s.split(c): the parts of s between the occurrences of the character c
RECURSIVE SplitAt(_, _)
SplitAt(s, c) ==
    LET i == Find(s, c)
    IN  IF i = 0 THEN <<s>> ELSE <<SubSeq(s, 1, i - 1)>> \o SplitAt(Drop(s, i), c)

\* the value of a decimal digit
DigitValue(c) == CHOOSE d \in 0..9 : Digit(d) = c

\* s.isdigit(), on ASCII text
IsDigit(s) == Len(s) > 0 /\ \A i \in 1..Len(s) : \E d \in 0..9 : Digit(d) = Char(s, i)

\* int(s) of a string of decimal digits
RECURSIVE ToInt(_)
ToInt(s) ==
    IF Len(s) = 0 THEN 0
    ELSE 10 * ToInt(SubSeq(s, 1, Len(s) - 1)) + DigitValue(Char(s, Len(s)))

----------------------------------------------------------------------------
(* OrderedDict *)

Keys(d) == {d[i][1] : i \in 1..Len(d)}

\* key in d
Has(d, k) == k \in Keys(d)

\* d.get(k, None)
Get(d, k) ==
    IF Has(d, k)
    THEN Some(d[CHOOSE i \in 1..Len(d) : d[i][1] = k][2])
    ELSE None

\* d[k] = v: a new key goes last, an existing key keeps its place
DictSet(d, k, v) ==
    IF Has(d, k)
    THEN [i \in 1..Len(d) |-> IF d[i][1] = k THEN <<k, v>> ELSE d[i]]
    ELSE Append(d, <<k, v>>)

----------------------------------------------------------------------------
(* The check objects *)

SIMPLE_OPTION_TYPES == {"kconfig", "version", "cmdline"}

\* the property `type` of each class
Type(o) ==
    CASE o.cls = "KconfigCheck" -> "kconfig"
      [] o.cls = "CmdlineCheck" -> "cmdline"
      [] o.cls = "VersionCheck" -> "version"
      [] OTHER -> "complex"

\* OptCheck.__init__ once its assertion has passed; KconfigCheck.__init__ then
\* prefixes the name
NewOptCheck(cls, reason, decision, name, expected) ==
    [cls |-> cls,
     name |-> IF cls = "KconfigCheck" THEN "CONFIG_" \o name ELSE name,
     expected |-> expected, decision |-> decision, reason |-> reason,
     state |-> None, ver_expected |-> <<>>, ver |-> <<>>, opts |-> <<>>,
     result |-> None]

\* the assertion of OptCheck.__init__: a bug would be to forget one of the three
OptCheckArgsOK(reason, decision, name) == reason # "" /\ decision # "" /\ name # ""

\* VersionCheck.__init__
NewVersionCheck(ver_expected) ==
    [cls |-> "VersionCheck", name |-> "", expected |-> None, decision |-> "",
     reason |-> "", state |-> None, ver_expected |-> ver_expected, ver |-> <<>>,
     opts |-> <<>>, result |-> None]

\* ComplexOptCheck.__init__ once its assertions have passed
NewComplexOptCheck(cls, opts) ==
    [cls |-> cls, name |-> "", expected |-> None, decision |-> "", reason |-> "",
     state |-> None, ver_expected |-> <<>>, ver |-> <<>>, opts |-> opts,
     result |-> None]

\* ComplexOptCheck.__init__ without the assertion on the number of children
ComplexArgsOK_first_only(h, opts) ==
    /\ Len(opts) # 0
    /\ h[opts[1]].cls \in {"KconfigCheck", "CmdlineCheck"}

\* the three assertions of ComplexOptCheck.__init__
ComplexArgsOK(h, opts) ==
    /\ Len(opts) # 0
    /\ Len(opts) # 1
    /\ h[opts[1]].cls \in {"KconfigCheck", "CmdlineCheck"}

\* the properties name and expected: a compound delegates to its first child
Name(h, id) == IF Type(h[id]) = "complex" THEN h[h[id].opts[1]].name ELSE h[id].name

Expected(h, id) ==
    IF Type(h[id]) = "complex" THEN h[h[id].opts[1]].expected ELSE h[id].expected

\* '{}'.format(expected): None prints as the word None
FormatExpected(e) == IF e = None THEN "None" ELSE e[1]

----------------------------------------------------------------------------
(* Evaluation: check() of each class *)

\* OptCheck.check with `not self.state` in place of `self.state is None`: an
\* empty value counts as absent
OptCheck_check_falsy(o) ==
    LET absent == o.state = None \/ o.state = Some("")
    IN  IF o.expected = None
        THEN (IF absent THEN "FAIL: not present" ELSE "OK: is present")
        ELSE IF o.expected = o.state THEN "OK"
        ELSE IF absent
             THEN (IF o.expected = Some("is not set") THEN "OK: not found" ELSE "FAIL: not found")
             ELSE "FAIL: \"" \o o.state[1] \o "\""

\* OptCheck.check: the result string it sets
OptCheck_check(o) ==
    IF o.expected = None
    THEN (IF o.state = None THEN "FAIL: not present" ELSE "OK: is present")
    ELSE IF o.expected = o.state THEN "OK"
    ELSE IF o.state = None
         THEN (IF o.expected = Some("is not set") THEN "OK: not found" ELSE "FAIL: not found")
         ELSE "FAIL: \"" \o o.state[1] \o "\""

\* the required bound as printed by VersionCheck.check
VerText(v) == Str(v[1]) \o "." \o Str(v[2])

\* VersionCheck.check comparing major and minor each on its own
VersionCheck_check_componentwise(o) ==
    IF o.ver[1] >= o.ver_expected[1] /\ o.ver[2] >= o.ver_expected[2]
    THEN "OK: version >= " \o VerText(o.ver_expected)
    ELSE "FAIL: version < " \o VerText(o.ver_expected)

\* VersionCheck.check on a populated pair: the result string it sets
VersionCheck_check(o) ==
    IF o.ver[1] > o.ver_expected[1] THEN "OK: version >= " \o VerText(o.ver_expected)
    ELSE IF o.ver[1] < o.ver_expected[1] THEN "FAIL: version < " \o VerText(o.ver_expected)
    ELSE IF o.ver[2] >= o.ver_expected[2] THEN "OK: version >= " \o VerText(o.ver_expected)
    ELSE "FAIL: version < " \o VerText(o.ver_expected)

\* The outcome of a call: the heap after it, the error it raised (None when it
\* returned), and the identities whose check() ran, in call order.
Returned(h, trace) == [objs |-> h, raised |-> None, trace |-> trace]
Raised(h, msg, trace) == [objs |-> h, raised |-> Some(msg), trace |-> trace]

SetResult(h, id, r) == [h EXCEPT ![id].result = Some(r)]

\* OR.check naming itself (self.name) instead of the passing child (opt.name)
OR_annotate_self(h, id, i) ==
    LET opt == h[id].opts[i]
        r   == h[opt].result[1]
    IN  IF i = 1 THEN Returned(SetResult(h, id, r), <<>>)
        ELSE IF r = "OK"
             THEN Returned(SetResult(h, id, "OK: " \o Name(h, id) \o " \""
                                            \o FormatExpected(Expected(h, id)) \o "\""), <<>>)
        ELSE IF r = "OK: not found"
             THEN Returned(SetResult(h, id, "OK: " \o Name(h, id) \o " not found"), <<>>)
        ELSE IF r = "OK: is present"
             THEN Returned(SetResult(h, id, "OK: " \o Name(h, id) \o " is present"), <<>>)
        ELSE IF StartsWith(r, "OK: version")
             THEN Returned(SetResult(h, id, r), <<>>)
        ELSE Raised(SetResult(h, id, r),
                    "AssertionError: unexpected OK description \"" \o r \o "\"", <<>>)

\* OR.check, lines 231-242: the result of an OR that passes through child i
OR_annotate(h, id, i) ==
    LET opt == h[id].opts[i]
        r   == h[opt].result[1]
    IN  IF i = 1 THEN Returned(SetResult(h, id, r), <<>>)
        ELSE IF r = "OK"
             THEN Returned(SetResult(h, id, "OK: " \o Name(h, opt) \o " \""
                                            \o FormatExpected(Expected(h, opt)) \o "\""), <<>>)
        ELSE IF r = "OK: not found"
             THEN Returned(SetResult(h, id, "OK: " \o Name(h, opt) \o " not found"), <<>>)
        ELSE IF r = "OK: is present"
             THEN Returned(SetResult(h, id, "OK: " \o Name(h, opt) \o " is present"), <<>>)
        ELSE IF StartsWith(r, "OK: version")
             THEN Returned(SetResult(h, id, r), <<>>)
        ELSE Raised(SetResult(h, id, r),
                    "AssertionError: unexpected OK description \"" \o r \o "\"", <<>>)

\* AND.check explaining a failing auxiliary child without the 'FAIL: ' prefix
AND_explain_bare(h, id, i) ==
    LET opt == h[id].opts[i]
        r   == h[opt].result[1]
    IN  IF StartsWith(r, "FAIL: \"") \/ r = "FAIL: not found"
        THEN Returned(SetResult(h, id, Name(h, opt) \o " not \""
                                       \o FormatExpected(Expected(h, opt)) \o "\""), <<>>)
        ELSE IF r = "FAIL: not present"
             THEN Returned(SetResult(h, id, Name(h, opt) \o " not present"), <<>>)
        ELSE IF StartsWith(r, "FAIL: version")
             THEN Returned(SetResult(h, id, r), <<>>)
        ELSE Raised(SetResult(h, id, r),
                    "AssertionError: unexpected FAIL description \"" \o r \o "\"", <<>>)

\* AND.check, lines 260-272: the result of an AND whose auxiliary child i failed
AND_explain(h, id, i) ==
    LET opt == h[id].opts[i]
        r   == h[opt].result[1]
    IN  IF StartsWith(r, "FAIL: \"") \/ r = "FAIL: not found"
        THEN Returned(SetResult(h, id, "FAIL: " \o Name(h, opt) \o " not \""
                                       \o FormatExpected(Expected(h, opt)) \o "\""), <<>>)
        ELSE IF r = "FAIL: not present"
             THEN Returned(SetResult(h, id, "FAIL: " \o Name(h, opt) \o " not present"), <<>>)
        ELSE IF StartsWith(r, "FAIL: version")
             THEN Returned(SetResult(h, id, r), <<>>)
        ELSE Raised(SetResult(h, id, r),
                    "AssertionError: unexpected FAIL description \"" \o r \o "\"", <<>>)

RECURSIVE check(_, _)
RECURSIVE OR_from(_, _, _)
RECURSIVE AND_from(_, _, _)

\* AND.check evaluating every child, child 0 included, before it looks for the
\* failing auxiliary child of highest index
RECURSIVE AND_from_eager(_, _, _)
AND_from_eager(h, id, i) ==
    LET c == check(h, h[id].opts[i])
    IN  IF c.raised # None THEN c
        ELSE IF i = 1
        THEN LET failed == {j \in 2..Len(h[id].opts) :
                              ~StartsWith(c.objs[h[id].opts[j]].result[1], "OK")}
                 e == IF failed = {}
                      THEN Returned(SetResult(c.objs, id, c.objs[h[id].opts[1]].result[1]),
                                    <<>>)
                      ELSE AND_explain(c.objs, id,
                                       CHOOSE j \in failed : \A k \in failed : j >= k)
             IN  [e EXCEPT !.trace = c.trace]
        ELSE LET rest == AND_from_eager(c.objs, id, i - 1)
             IN  [rest EXCEPT !.trace = c.trace \o rest.trace]

\* OR.check evaluating every child before it looks for the first that passed
RECURSIVE OR_from_eager(_, _, _)
OR_from_eager(h, id, i) ==
    LET c == check(h, h[id].opts[i])
    IN  IF c.raised # None THEN c
        ELSE IF i = Len(h[id].opts)
        THEN LET first == {j \in 1..i : StartsWith(c.objs[h[id].opts[j]].result[1], "OK")}
                 a == IF first = {}
                      THEN Returned(SetResult(c.objs, id, c.objs[h[id].opts[1]].result[1]),
                                    <<>>)
                      ELSE OR_annotate(c.objs, id,
                                       CHOOSE j \in first : \A k \in first : j <= k)
             IN  [a EXCEPT !.trace = c.trace]
        ELSE LET rest == OR_from_eager(c.objs, id, i + 1)
             IN  [rest EXCEPT !.trace = c.trace \o rest.trace]

\* OR.check reporting, when no child passes, the failure of its last child
RECURSIVE OR_from_last(_, _, _)
OR_from_last(h, id, i) ==
    IF i > Len(h[id].opts)
    THEN Returned(SetResult(h, id, h[h[id].opts[Len(h[id].opts)]].result[1]), <<>>)
    ELSE LET c == check(h, h[id].opts[i])
         IN  IF c.raised # None THEN c
             ELSE IF StartsWith(c.objs[h[id].opts[i]].result[1], "OK")
                  THEN LET a == OR_annotate(c.objs, id, i)
                       IN  [a EXCEPT !.trace = c.trace]
                  ELSE LET rest == OR_from_last(c.objs, id, i + 1)
                       IN  [rest EXCEPT !.trace = c.trace \o rest.trace]

\* OR.check from child i on: children in increasing order, stop at the first OK
OR_from(h, id, i) ==
    IF i > Len(h[id].opts)
    THEN Returned(SetResult(h, id, h[h[id].opts[1]].result[1]), <<>>)
    ELSE LET c == check(h, h[id].opts[i])
         IN  IF c.raised # None THEN c
             ELSE IF StartsWith(c.objs[h[id].opts[i]].result[1], "OK")
                  THEN LET a == OR_annotate(c.objs, id, i)
                       IN  [a EXCEPT !.trace = c.trace]
                  ELSE LET rest == OR_from(c.objs, id, i + 1)
                       IN  [rest EXCEPT !.trace = c.trace \o rest.trace]

\* AND.check from child i down: children in decreasing order, stop at the first
\* auxiliary child that is not OK; child 0 (index 1 here) gives the result
AND_from(h, id, i) ==
    LET c == check(h, h[id].opts[i])
    IN  IF c.raised # None THEN c
        ELSE IF i = 1
             THEN Returned(SetResult(c.objs, id, c.objs[h[id].opts[1]].result[1]), c.trace)
        ELSE IF ~StartsWith(c.objs[h[id].opts[i]].result[1], "OK")
             THEN LET e == AND_explain(c.objs, id, i)
                  IN  [e EXCEPT !.trace = c.trace]
        ELSE LET rest == AND_from(c.objs, id, i - 1)
             IN  [rest EXCEPT !.trace = c.trace \o rest.trace]

\* opt.check() by class
check(h, id) ==
    LET o == h[id]
        r == CASE o.cls \in {"KconfigCheck", "CmdlineCheck"} ->
                      Returned(SetResult(h, id, OptCheck_check(o)), <<>>)
               [] o.cls = "VersionCheck" ->
                      IF Len(o.ver) < 2
                      THEN Raised(h, "IndexError: tuple index out of range", <<>>)
                      ELSE Returned(SetResult(h, id, VersionCheck_check(o)), <<>>)
               [] o.cls = "OR" -> OR_from(h, id, 1)
               [] o.cls = "AND" -> AND_from(h, id, Len(o.opts))
    IN  [r EXCEPT !.trace = <<id>> \o r.trace]

\* perform_checks leaving the loop at the first rule that fails
RECURSIVE perform_checks_from_until_fail(_, _, _)
perform_checks_from_until_fail(h, checklist, i) ==
    IF i > Len(checklist) THEN Returned(h, <<>>)
    ELSE LET c == check(h, checklist[i])
         IN  IF c.raised # None THEN c
             ELSE IF StartsWith(c.objs[checklist[i]].result[1], "FAIL") THEN c
             ELSE LET rest == perform_checks_from_until_fail(c.objs, checklist, i + 1)
                  IN  [rest EXCEPT !.trace = c.trace \o rest.trace]

\* perform_checks from entry i of the checklist on
RECURSIVE perform_checks_from(_, _, _)
perform_checks_from(h, checklist, i) ==
    IF i > Len(checklist) THEN Returned(h, <<>>)
    ELSE LET c == check(h, checklist[i])
         IN  IF c.raised # None THEN c
             ELSE LET rest == perform_checks_from(c.objs, checklist, i + 1)
                  IN  [rest EXCEPT !.trace = c.trace \o rest.trace]

\* perform_checks running its loop over the checklist twice
perform_checks_twice(h, checklist) ==
    LET first == perform_checks_from(h, checklist, 1)
    IN  IF first.raised # None THEN first
        ELSE LET second == perform_checks_from(first.objs, checklist, 1)
             IN  [second EXCEPT !.trace = first.trace \o second.trace]

perform_checks(h, checklist) == perform_checks_from(h, checklist, 1)

\* print_checklist, the final score: the entries of the checklist whose result
\* starts with 'OK', and those whose result starts with 'FAIL'
ok_count(h, checklist) ==
    Cardinality({j \in 1..Len(checklist) : StartsWith(h[checklist[j]].result[1], "OK")})

fail_count(h, checklist) ==
    Cardinality({j \in 1..Len(checklist) : StartsWith(h[checklist[j]].result[1], "FAIL")})

----------------------------------------------------------------------------
(* Population *)

\* populate_simple_opt_with_data without the `data_type != opt.type` return:
\* every pass binds every simple check
populate_simple_opt_with_data_any_kind(h, id, data, data_type) ==
    IF Type(h[id]) = "complex"
    THEN Raised(h, "AssertionError: unexpected ComplexOptCheck", <<>>)
    ELSE IF Type(h[id]) \notin SIMPLE_OPTION_TYPES \/ data_type \notin SIMPLE_OPTION_TYPES
    THEN Raised(h, "AssertionError: invalid type", <<>>)
    ELSE IF data_type \in {"kconfig", "cmdline"}
         THEN Returned([h EXCEPT ![id].state = Get(data, h[id].name)], <<>>)
         ELSE Returned([h EXCEPT ![id].ver = data], <<>>)

\* populate_simple_opt_with_data clearing the state of a check of another kind
\* (`opt.state = None` before the return)
populate_simple_opt_with_data_reset(h, id, data, data_type) ==
    IF Type(h[id]) = "complex"
    THEN Raised(h, "AssertionError: unexpected ComplexOptCheck", <<>>)
    ELSE IF Type(h[id]) \notin SIMPLE_OPTION_TYPES \/ data_type \notin SIMPLE_OPTION_TYPES
    THEN Raised(h, "AssertionError: invalid type", <<>>)
    ELSE IF data_type # Type(h[id]) THEN Returned([h EXCEPT ![id].state = None], <<>>)
    ELSE IF data_type \in {"kconfig", "cmdline"}
         THEN Returned([h EXCEPT ![id].state = Get(data, h[id].name)], <<>>)
         ELSE Returned([h EXCEPT ![id].ver = data], <<>>)

\* populate_simple_opt_with_data: binds state (or ver) when the kinds agree
populate_simple_opt_with_data(h, id, data, data_type) ==
    IF Type(h[id]) = "complex"
    THEN Raised(h, "AssertionError: unexpected ComplexOptCheck", <<>>)
    ELSE IF Type(h[id]) \notin SIMPLE_OPTION_TYPES \/ data_type \notin SIMPLE_OPTION_TYPES
    THEN Raised(h, "AssertionError: invalid type", <<>>)
    ELSE IF data_type # Type(h[id]) THEN Returned(h, <<>>)
    ELSE IF data_type \in {"kconfig", "cmdline"}
         THEN Returned([h EXCEPT ![id].state = Get(data, h[id].name)], <<>>)
         ELSE Returned([h EXCEPT ![id].ver = data], <<>>)

RECURSIVE populate_opt_with_data(_, _, _, _)
RECURSIVE populate_opts_from(_, _, _, _, _)

\* the loop `for o in opt.opts` of populate_opt_with_data, from child i on
populate_opts_from(h, opts, i, data, data_type) ==
    IF i > Len(opts) THEN Returned(h, <<>>)
    ELSE LET r == IF Type(h[opts[i]]) = "complex"
                  THEN populate_opt_with_data(h, opts[i], data, data_type)
                  ELSE populate_simple_opt_with_data(h, opts[i], data, data_type)
         IN  IF r.raised # None THEN r
             ELSE populate_opts_from(r.objs, opts, i + 1, data, data_type)

\* populate_opt_with_data binding only the first child of a compound check
populate_opt_with_data_head(h, id, data, data_type) ==
    IF Type(h[id]) = "complex"
    THEN populate_simple_opt_with_data(h, h[id].opts[1], data, data_type)
    ELSE IF Type(h[id]) \notin {"kconfig", "cmdline"}
         THEN Raised(h, "AssertionError: bad type for a simple check", <<>>)
         ELSE populate_simple_opt_with_data(h, id, data, data_type)

populate_opt_with_data(h, id, data, data_type) ==
    IF Type(h[id]) = "complex"
    THEN populate_opts_from(h, h[id].opts, 1, data, data_type)
    ELSE IF Type(h[id]) \notin {"kconfig", "cmdline"}
         THEN Raised(h, "AssertionError: bad type for a simple check", <<>>)
         ELSE populate_simple_opt_with_data(h, id, data, data_type)

\* populate_with_data from entry i of the checklist on
RECURSIVE populate_with_data_from(_, _, _, _, _)
populate_with_data_from(h, checklist, i, data, data_type) ==
    IF i > Len(checklist) THEN Returned(h, <<>>)
    ELSE LET r == populate_opt_with_data(h, checklist[i], data, data_type)
         IN  IF r.raised # None THEN r
             ELSE populate_with_data_from(r.objs, checklist, i + 1, data, data_type)

populate_with_data(h, checklist, data, data_type) ==
    populate_with_data_from(h, checklist, 1, data, data_type)

----------------------------------------------------------------------------
(* parse_kconfig_file *)

\* opt_is_on.match(line): CONFIG_[a-zA-Z0-9_]*=[a-zA-Z0-9_"]* matches a prefix of
\* the line; the second class may match nothing, so the '=' decides
opt_is_on(line) ==
    /\ StartsWith(line, "CONFIG_")
    /\ Char(line, SkipWord(line, 8)) = "="

\* opt_is_off without the space after '#': "#CONFIG_[a-zA-Z0-9_]* is not set"
opt_is_off_no_space(line) ==
    /\ StartsWith(line, "#CONFIG_")
    /\ StartsWith(Drop(line, SkipWord(line, 9) - 1), " is not set")

\* opt_is_off.match(line): "# CONFIG_[a-zA-Z0-9_]* is not set" matches a prefix
opt_is_off(line) ==
    /\ StartsWith(line, "# CONFIG_")
    /\ StartsWith(Drop(line, SkipWord(line, 10) - 1), " is not set")

\* line.rsplit('=', 1): the split at the last '='
split_on_last(line) ==
    LET at == {i \in 1..Len(line) : Char(line, i) = "="}
        k  == CHOOSE i \in at : \A j \in at : j <= i
    IN  IF at = {} THEN <<line>>
        ELSE <<SubSeq(line, 1, k - 1), Drop(line, k)>>

\* line.split('=', 1) of an enabled line
split_on(line) == Split1(line, "=")

\* line[2:].split(' ', 1) of a disabled line
split_off(line) == Split1(Drop(line, 2), " ")

\* a duplicate test that looks at the previous definition only
is_duplicate_of_last(parsed_options, option) ==
    /\ option # None
    /\ Len(parsed_options) > 0
    /\ parsed_options[Len(parsed_options)][1] = option[1]

\* `option in parsed_options` (None is never a key)
is_duplicate(parsed_options, option) == option # None /\ Has(parsed_options, option[1])

\* a loop body that stores nothing for a '# CONFIG_X is not set' line: a
\* disabled option is then an absent one
parse_kconfig_line_off_absent(parsed_options, raw) ==
    LET line == Strip(raw)
        on   == opt_is_on(line)
        kv   == IF on THEN split_on(line) ELSE <<>>
    IN  IF on /\ kv[2] = "is not set"
        THEN [d |-> parsed_options,
              exit |-> Some("[!] ERROR: bad enabled kconfig option \"" \o line \o "\"")]
        ELSE IF on /\ Has(parsed_options, kv[1])
        THEN [d |-> parsed_options,
              exit |-> Some("[!] ERROR: kconfig option \"" \o line \o "\" exists multiple times")]
        ELSE IF on /\ kv[1] # ""
        THEN [d |-> DictSet(parsed_options, kv[1], kv[2]), exit |-> None]
        ELSE [d |-> parsed_options, exit |-> None]

\* One pass of the loop body of parse_kconfig_file on a raw line: the dictionary
\* after it and the sys.exit message (None when the loop goes on).
parse_kconfig_line(parsed_options, raw) ==
    LET line == Strip(raw)
        on   == opt_is_on(line)
        off  == ~on /\ opt_is_off(line)
        kv   == IF on THEN split_on(line) ELSE IF off THEN split_off(line) ELSE <<>>
        option == IF on \/ off THEN Some(kv[1]) ELSE None
        value  == IF on \/ off THEN Some(kv[2]) ELSE None
    IN  IF on /\ value = Some("is not set")
        THEN [d |-> parsed_options,
              exit |-> Some("[!] ERROR: bad enabled kconfig option \"" \o line \o "\"")]
        ELSE IF off /\ value # Some("is not set")
        THEN [d |-> parsed_options,
              exit |-> Some("[!] ERROR: bad disabled kconfig option \"" \o line \o "\"")]
        ELSE IF is_duplicate(parsed_options, option)
        THEN [d |-> parsed_options,
              exit |-> Some("[!] ERROR: kconfig option \"" \o line \o "\" exists multiple times")]
        ELSE IF option # None /\ option[1] # ""
        THEN [d |-> DictSet(parsed_options, option[1], value[1]), exit |-> None]
        ELSE [d |-> parsed_options, exit |-> None]

\* parse_kconfig_file on the lines from index i on
RECURSIVE parse_kconfig_from(_, _, _)
parse_kconfig_from(parsed_options, lines, i) ==
    IF i > Len(lines) THEN [d |-> parsed_options, exit |-> None]
    ELSE LET r == parse_kconfig_line(parsed_options, lines[i])
         IN  IF r.exit # None THEN r ELSE parse_kconfig_from(r.d, lines, i + 1)

parse_kconfig_file(lines) == parse_kconfig_from(<<>>, lines, 1)

----------------------------------------------------------------------------
(* parse_cmdline_file *)

TrueSpellings == {"1", "on", "On", "ON", "y", "Y", "yes", "Yes", "YES"}
FalseSpellings == {"0", "off", "Off", "OFF", "n", "N", "no", "No", "NO"}

\* normalize_cmdline_options without the exemption of 'debugfs'
normalize_cmdline_options_pti_only(option, value) ==
    IF option = "pti" THEN value
    ELSE IF value \in TrueSpellings THEN "1"
    ELSE IF value \in FalseSpellings THEN "0"
    ELSE value

normalize_cmdline_options(option, value) ==
    IF option = "pti" THEN value
    ELSE IF option = "debugfs" THEN value
    ELSE IF value \in TrueSpellings THEN "1"
    ELSE IF value \in FalseSpellings THEN "0"
    ELSE value

\* the loop of parse_cmdline_file with `continue` for a token without '=': a bare
\* token is not stored
RECURSIVE parse_cmdline_opts_skip_bare(_, _, _)
parse_cmdline_opts_skip_bare(parsed_options, opts, i) ==
    IF i > Len(opts) THEN parsed_options
    ELSE LET opt == opts[i]
             kv  == Split1(opt, "=")
         IN  IF Find(opt, "=") = 0
             THEN parse_cmdline_opts_skip_bare(parsed_options, opts, i + 1)
             ELSE parse_cmdline_opts_skip_bare(
                      DictSet(parsed_options, kv[1], normalize_cmdline_options(kv[1], kv[2])),
                      opts, i + 1)

\* the loop `for opt in opts` of parse_cmdline_file, from token i on
RECURSIVE parse_cmdline_opts(_, _, _)
parse_cmdline_opts(parsed_options, opts, i) ==
    IF i > Len(opts) THEN parsed_options
    ELSE LET opt   == opts[i]
             kv    == Split1(opt, "=")
             name  == IF Find(opt, "=") # 0 THEN kv[1] ELSE opt
             value == IF Find(opt, "=") # 0 THEN kv[2] ELSE ""
         IN  parse_cmdline_opts(
                 DictSet(parsed_options, name, normalize_cmdline_options(name, value)),
                 opts, i + 1)

\* parse_cmdline_file with `if line.strip()`: a second line of blanks is let pass
parse_cmdline_file_blank_ok(lines) ==
    LET first  == IF Len(lines) >= 1 THEN lines[1] ELSE ""
        second == IF Len(lines) >= 2 THEN lines[2] ELSE ""
    IN  IF Strip(second) # ""
        THEN [d |-> <<>>, exit |-> Some("[!] ERROR: more than one line in the cmdline file")]
        ELSE [d |-> parse_cmdline_opts(<<>>, Split(first), 1), exit |-> None]

\* parse_cmdline_file on the file's lines (f.readline() gives '' at the end of the
\* file, and a line keeps its '\n')
parse_cmdline_file(lines) ==
    LET first  == IF Len(lines) >= 1 THEN lines[1] ELSE ""
        second == IF Len(lines) >= 2 THEN lines[2] ELSE ""
    IN  IF second # ""
        THEN [d |-> <<>>, exit |-> Some("[!] ERROR: more than one line in the cmdline file")]
        ELSE [d |-> parse_cmdline_opts(<<>>, Split(first), 1), exit |-> None]

----------------------------------------------------------------------------
(* detect_arch, detect_version *)

\* supported_archs of main()
supported_archs == {"X86_64", "X86_32", "ARM64", "ARM"}

\* arch_pattern.match(line): CONFIG_[a-zA-Z0-9_]*=y matches a prefix of the line
arch_pattern(line) ==
    /\ StartsWith(line, "CONFIG_")
    /\ Char(line, SkipWord(line, 8)) = "="
    /\ Char(line, SkipWord(line, 8) + 1) = "y"

\* the loop of detect_arch from line i on, with the architecture found so far
RECURSIVE detect_arch_from(_, _, _, _)
detect_arch_from(lines, archs, i, found) ==
    IF i > Len(lines)
    THEN (IF found = None
          THEN [arch |-> None, msg |-> "failed to detect architecture"]
          ELSE [arch |-> found, msg |-> "OK"])
    ELSE IF arch_pattern(lines[i]) /\ Split1(Drop(lines[i], 7), "=")[1] \in archs
    THEN (IF found = None
          THEN detect_arch_from(lines, archs, i + 1, Some(Split1(Drop(lines[i], 7), "=")[1]))
          ELSE [arch |-> None, msg |-> "more than one supported architecture is detected"])
    ELSE detect_arch_from(lines, archs, i + 1, found)

\* detect_arch returning at the first supported architecture it finds
RECURSIVE detect_arch_first_from(_, _, _)
detect_arch_first_from(lines, archs, i) ==
    IF i > Len(lines) THEN [arch |-> None, msg |-> "failed to detect architecture"]
    ELSE IF arch_pattern(lines[i]) /\ Split1(Drop(lines[i], 7), "=")[1] \in archs
    THEN [arch |-> Some(Split1(Drop(lines[i], 7), "=")[1]), msg |-> "OK"]
    ELSE detect_arch_first_from(lines, archs, i + 1)

detect_arch_first(lines, archs) == detect_arch_first_from(lines, archs, 1)

detect_arch(lines, archs) == detect_arch_from(lines, archs, 1, None)

\* ver_pattern.match(line): "# Linux/.* Kernel Configuration" matches a prefix of
\* the line ('.' matches every character but the line break, which ends the line)
ver_pattern(line) ==
    /\ StartsWith(line, "# Linux/")
    /\ IndexOf(line, " Kernel Configuration", 9) # 0

\* the loop of detect_version from line i on
RECURSIVE detect_version_from(_, _)
detect_version_from(lines, i) ==
    IF i > Len(lines) THEN [ver |-> None, msg |-> Some("no kernel version detected")]
    ELSE IF ver_pattern(lines[i])
    THEN LET parts       == Split(Strip(lines[i]))
             ver_str     == parts[3]
             ver_numbers == SplitAt(ver_str, ".")
         IN  IF Len(ver_numbers) < 3 \/ ~IsDigit(ver_numbers[1]) \/ ~IsDigit(ver_numbers[2])
             THEN [ver |-> None,
                   msg |-> Some("failed to parse the version \"" \o ver_str \o "\"")]
             ELSE [ver |-> <<ToInt(ver_numbers[1]), ToInt(ver_numbers[2])>>, msg |-> None]
    ELSE detect_version_from(lines, i + 1)

\* detect_version asking for two components only (len(ver_numbers) < 2)
RECURSIVE detect_version_two_from(_, _)
detect_version_two_from(lines, i) ==
    IF i > Len(lines) THEN [ver |-> None, msg |-> Some("no kernel version detected")]
    ELSE IF ver_pattern(lines[i])
    THEN LET parts       == Split(Strip(lines[i]))
             ver_str     == parts[3]
             ver_numbers == SplitAt(ver_str, ".")
         IN  IF Len(ver_numbers) < 2 \/ ~IsDigit(ver_numbers[1]) \/ ~IsDigit(ver_numbers[2])
             THEN [ver |-> None,
                   msg |-> Some("failed to parse the version \"" \o ver_str \o "\"")]
             ELSE [ver |-> <<ToInt(ver_numbers[1]), ToInt(ver_numbers[2])>>, msg |-> None]
    ELSE detect_version_two_from(lines, i + 1)

detect_version_two(lines) == detect_version_two_from(lines, 1)

detect_version(lines) == detect_version_from(lines, 1)

----------------------------------------------------------------------------
(* Inputs *)

\* sequences over S of length at most n
RECURSIVE SeqsUpTo(_, _)
SeqsUpTo(S, n) ==
    IF n = 0 THEN {<<>>}
    ELSE LET shorter == SeqsUpTo(S, n - 1)
         IN  shorter \cup {Append(q, x) : q \in {r \in shorter : Len(r) = n - 1}, x \in S}

\* lines a --config file is made of, as readlines() returns them
KconfigLines ==
    {"CONFIG_BUG=y\n",
     "# CONFIG_BUG is not set\n",
     "CONFIG_BUG=\n",
     "  CONFIG_EFI=\"a=b\" \n",
     "# CONFIG_EFI is not set\n",
     "# a comment\n",
     "EFI=y\n",
     "CONFIG_BUG y\n",
     "CONFIG_BUG=is not set\n",
     "# CONFIG_EFI is not set yet\n"}

KconfigFiles == SeqsUpTo(KconfigLines, MaxLines)

\* --cmdline files
CmdlineFiles ==
    {<<"rodata=on pti=on\n">>,
     <<"rodata\n">>,
     <<"rodata=0 nopti\n">>,
     <<"rodata=1\n", "\n">>,
     <<>>}

\* versions detected from the banner of the --config file
KernelVersions == {<<4, 19>>, <<5, 9>>, <<5, 10>>, <<6, 0>>}

----------------------------------------------------------------------------
(* main(): the steps shared by the specifications *)

\* sys.exit(msg), or an uncaught exception: the process is over
\* sys.exit(msg) that only reports the error and lets main go on to the
\* evaluation
Die_report(msg) ==
    /\ pc' = "perform_checks"
    /\ exit_msg' = msg

Die(msg) ==
    /\ pc' = "exited"
    /\ exit_msg' = msg

\* one pass of the loop of parse_kconfig_file
ParseKconfigLine ==
    /\ pc = "parse_kconfig"
    /\ line_no <= Len(kconfig_file)
    /\ LET r == parse_kconfig_line(parsed_kconfig_options, kconfig_file[line_no])
       IN  IF r.exit # None
           THEN /\ Die(r.exit)
                /\ UNCHANGED <<line_no, parsed_kconfig_options>>
           ELSE /\ parsed_kconfig_options' = r.d
                /\ line_no' = line_no + 1
                /\ UNCHANGED <<pc, exit_msg>>
    /\ UNCHANGED <<arch, kconfig_file, cmdline_file, parsed_cmdline_options, kernel_version,
                   objs, stack, config_checklist, check_trace>>

\* populate_with_data(config_checklist, parsed_kconfig_options, 'kconfig')
PopulateKconfig ==
    /\ \/ pc = "populate_kconfig"
       \/ pc = "parse_kconfig" /\ line_no > Len(kconfig_file)
    /\ LET r == populate_with_data(objs, config_checklist, parsed_kconfig_options, "kconfig")
       IN  IF r.raised # None
           THEN Die(r.raised) /\ UNCHANGED objs
           ELSE objs' = r.objs /\ pc' = "populate_version" /\ UNCHANGED exit_msg
    /\ UNCHANGED <<arch, kconfig_file, cmdline_file, line_no, parsed_kconfig_options,
                   parsed_cmdline_options, kernel_version, stack, config_checklist,
                   check_trace>>

\* populate_with_data(config_checklist, kernel_version, 'version')
PopulateVersion ==
    /\ pc = "populate_version"
    /\ LET r == populate_with_data(objs, config_checklist, kernel_version, "version")
       IN  IF r.raised # None
           THEN Die(r.raised) /\ UNCHANGED objs
           ELSE /\ objs' = r.objs
                /\ pc' = IF cmdline_file # None THEN "parse_cmdline" ELSE "perform_checks"
                /\ UNCHANGED exit_msg
    /\ UNCHANGED <<arch, kconfig_file, cmdline_file, line_no, parsed_kconfig_options,
                   parsed_cmdline_options, kernel_version, stack, config_checklist,
                   check_trace>>

\* parse_cmdline_file(parsed_cmdline_options, args.cmdline)
ParseCmdlineFile ==
    /\ pc = "parse_cmdline"
    /\ LET r == parse_cmdline_file(cmdline_file[1])
       IN  IF r.exit # None
           THEN Die(r.exit) /\ UNCHANGED parsed_cmdline_options
           ELSE /\ parsed_cmdline_options' = r.d
                /\ pc' = "populate_cmdline"
                /\ UNCHANGED exit_msg
    /\ UNCHANGED <<arch, kconfig_file, cmdline_file, line_no, parsed_kconfig_options,
                   kernel_version, objs, stack, config_checklist, check_trace>>

\* populate_with_data(config_checklist, parsed_cmdline_options, 'cmdline')
PopulateCmdline ==
    /\ pc = "populate_cmdline"
    /\ LET r == populate_with_data(objs, config_checklist, parsed_cmdline_options, "cmdline")
       IN  IF r.raised # None
           THEN Die(r.raised) /\ UNCHANGED objs
           ELSE objs' = r.objs /\ pc' = "perform_checks" /\ UNCHANGED exit_msg
    /\ UNCHANGED <<arch, kconfig_file, cmdline_file, line_no, parsed_kconfig_options,
                   parsed_cmdline_options, kernel_version, stack, config_checklist,
                   check_trace>>

\* perform_checks(config_checklist); an error raised by a check() ends the run
\* with the results set so far
PerformChecks ==
    /\ pc = "perform_checks"
    /\ LET r == perform_checks(objs, config_checklist)
       IN  /\ objs' = r.objs
           /\ check_trace' = r.trace
           /\ IF r.raised # None
              THEN Die(r.raised)
              ELSE pc' = "print_checklist" /\ UNCHANGED exit_msg
    /\ UNCHANGED <<arch, kconfig_file, cmdline_file, line_no, parsed_kconfig_options,
                   parsed_cmdline_options, kernel_version, stack, config_checklist>>

\* print_checklist(mode, config_checklist, True) and sys.exit(0)
PrintChecklist ==
    /\ pc = "print_checklist"
    /\ pc' = "done"
    /\ UNCHANGED <<arch, kconfig_file, cmdline_file, line_no, parsed_kconfig_options,
                   parsed_cmdline_options, kernel_version, objs, stack, config_checklist,
                   exit_msg, check_trace>>

----------------------------------------------------------------------------
(* SpecRun: main() on a fixed checklist, over the --config and --cmdline files *)

\* the checks add_kconfig_checks puts on the list
ParseKconfigChecks ==
    <<NewOptCheck("KconfigCheck", "self_protection", "defconfig", "BUG", Some("y")),
      NewOptCheck("KconfigCheck", "cut_attack_surface", "my", "BUG", None),
      NewOptCheck("KconfigCheck", "cut_attack_surface", "my", "BUG", Some("is not set")),
      NewOptCheck("KconfigCheck", "-", "-", "EFI", Some("is not set")),
      NewOptCheck("KconfigCheck", "cut_attack_surface", "clipos", "EFI", None),
      NewOptCheck("KconfigCheck", "self_protection", "defconfig", "BUG", Some("y")),
      NewVersionCheck(<<5, 10>>),
      NewComplexOptCheck("AND", <<6, 7>>),
      NewOptCheck("KconfigCheck", "self_protection", "defconfig", "EFI", Some("y")),
      NewVersionCheck(<<4, 20>>),
      NewComplexOptCheck("AND", <<9, 10>>)>>

\* the identities add_kconfig_checks appends to the list
ParseKconfigList == <<1, 2, 3, 4, 5, 8, 11>>

\* the checks add_cmdline_checks puts on the list
ParseCmdlineChecks ==
    <<NewOptCheck("CmdlineCheck", "self_protection", "defconfig", "rodata", Some("1")),
      NewOptCheck("CmdlineCheck", "self_protection", "kspp", "rodata", None),
      NewOptCheck("CmdlineCheck", "self_protection", "kspp", "rodata", Some("is not set")),
      NewOptCheck("CmdlineCheck", "self_protection", "kspp", "pti", Some("on"))>>

InitRun ==
    /\ pc = "parse_kconfig"
    /\ arch = Some("X86_64")
    /\ kconfig_file \in KconfigFiles
    /\ cmdline_file \in {None} \cup {Some(f) : f \in CmdlineFiles}
    /\ line_no = 1
    /\ parsed_kconfig_options = <<>>
    /\ parsed_cmdline_options = <<>>
    /\ kernel_version \in KernelVersions
    /\ objs = IF cmdline_file # None
              THEN ParseKconfigChecks \o ParseCmdlineChecks
              ELSE ParseKconfigChecks
    /\ stack = <<>>
    /\ config_checklist =
          IF cmdline_file # None
          THEN ParseKconfigList
                   \o [i \in 1..Len(ParseCmdlineChecks) |-> Len(ParseKconfigChecks) + i]
          ELSE ParseKconfigList
    /\ exit_msg = None
    /\ check_trace = <<>>

NextRun ==
    \/ ParseKconfigLine
    \/ PopulateKconfig
    \/ PopulateVersion
    \/ ParseCmdlineFile
    \/ PopulateCmdline
    \/ PerformChecks
    \/ PrintChecklist

SpecRun == InitRun /\ [][NextRun]_vars

----------------------------------------------------------------------------
(* Spec: main() from the construction of the checklist to the printed results. *)
(* add_kconfig_checks evaluates expressions such as                           *)
(*     l += [OR(KconfigCheck(..), AND(KconfigCheck(..), VersionCheck(..)))]   *)
(* arguments first, left to right: each constructor leaves its object on the  *)
(* stack, a compound's constructor takes its arguments from the top of it.    *)

\* arguments of the constructors
KconfigNames == {"BUG", "EFI"}
ExpectedValues == {None, Some("y"), Some("is not set")}
VersionBounds == {<<5, 10>>}

\* versions the banner of these files gives
EngineVersions == {<<5, 9>>, <<5, 10>>}

\* --config files whose option lines the checks read
EngineLines == {<<>>, <<"CONFIG_BUG=y\n">>, <<"# CONFIG_BUG is not set\n">>}
    \X {<<>>, <<"CONFIG_EFI=y\n">>}

EngineFiles == {p[1] \o p[2] : p \in EngineLines}

\* reason and decision arguments of the simple checks, given or left empty
EngineReasons == {"cut_attack_surface", ""}
EngineDecisions == {"kspp", ""}

Init ==
    /\ pc = "add_checks"
    /\ arch = Some("X86_64")
    /\ kconfig_file = <<>>
    /\ cmdline_file = None
    /\ line_no = 1
    /\ parsed_kconfig_options = <<>>
    /\ parsed_cmdline_options = <<>>
    /\ kernel_version = <<>>
    /\ objs = <<>>
    /\ stack = <<>>
    /\ config_checklist = <<>>
    /\ exit_msg = None
    /\ check_trace = <<>>

\* what a constructor leaves unchanged
ConstructorFrame ==
    UNCHANGED <<arch, kconfig_file, cmdline_file, line_no, parsed_kconfig_options,
                parsed_cmdline_options, kernel_version, config_checklist, check_trace>>

\* KconfigCheck(reason, decision, name, expected)
NewKconfigCheck ==
    /\ pc = "add_checks"
    /\ Len(objs) < MaxObjs
    /\ \E reason \in EngineReasons, decision \in EngineDecisions,
          name \in KconfigNames \cup {""}, expected \in ExpectedValues :
          IF OptCheckArgsOK(reason, decision, name)
          THEN /\ objs' = Append(objs, NewOptCheck("KconfigCheck", reason, decision,
                                                  name, expected))
               /\ stack' = Append(stack, Len(objs) + 1)
               /\ UNCHANGED <<pc, exit_msg>>
          ELSE /\ Die(Some("AssertionError: invalid KconfigCheck check"))
               /\ UNCHANGED <<objs, stack>>
    /\ ConstructorFrame

\* VersionCheck(ver_expected)
NewVersionCheckObj ==
    /\ pc = "add_checks"
    /\ Len(objs) < MaxObjs
    /\ \E v \in VersionBounds :
          /\ objs' = Append(objs, NewVersionCheck(v))
          /\ stack' = Append(stack, Len(objs) + 1)
    /\ UNCHANGED <<pc, exit_msg>>
    /\ ConstructorFrame

\* OR(*opts) or AND(*opts) on the k objects on top of the stack (k = 0: a call
\* without arguments)
NewComplex(cls, k) ==
    LET opts == SubSeq(stack, Len(stack) - k + 1, Len(stack))
    IN  IF ComplexArgsOK(objs, opts)
        THEN /\ objs' = Append(objs, NewComplexOptCheck(cls, opts))
             /\ stack' = Append(SubSeq(stack, 1, Len(stack) - k), Len(objs) + 1)
             /\ UNCHANGED <<pc, exit_msg>>
        ELSE /\ Die(Some("AssertionError: invalid " \o cls \o " check"))
             /\ UNCHANGED <<objs, stack>>

NewOR ==
    /\ pc = "add_checks"
    /\ Len(objs) < MaxObjs
    /\ \E k \in 0..(IF Len(stack) < MaxOpts THEN Len(stack) ELSE MaxOpts) : NewComplex("OR", k)
    /\ ConstructorFrame

NewAND ==
    /\ pc = "add_checks"
    /\ Len(objs) < MaxObjs
    /\ \E k \in 0..(IF Len(stack) < MaxOpts THEN Len(stack) ELSE MaxOpts) : NewComplex("AND", k)
    /\ ConstructorFrame

\* l += [<the object the expression evaluated to>]: the one rule of this checklist
\* (SpecRun evaluates a list of several)
AddToChecklist ==
    /\ pc = "add_checks"
    /\ Len(stack) = 1
    /\ config_checklist = <<>>
    /\ config_checklist' = Append(config_checklist, stack[1])
    /\ stack' = <<>>
    /\ UNCHANGED <<pc, arch, kconfig_file, cmdline_file, line_no, parsed_kconfig_options,
                   parsed_cmdline_options, kernel_version, objs, exit_msg, check_trace>>

\* add_kconfig_checks has returned; parse_kconfig_file reads the whole --config
\* file, whose banner gave kernel_version
ParseKconfigFile ==
    /\ pc = "add_checks"
    /\ stack = <<>>
    /\ config_checklist # <<>>
    /\ \E f \in EngineFiles, v \in EngineVersions :
          LET r == parse_kconfig_file(f)
          IN  /\ kconfig_file' = f
              /\ kernel_version' = v
              /\ line_no' = Len(f) + 1
              /\ parsed_kconfig_options' = r.d
              /\ IF r.exit # None
                 THEN Die(r.exit)
                 ELSE pc' = "populate_kconfig" /\ UNCHANGED exit_msg
    /\ UNCHANGED <<arch, cmdline_file, parsed_cmdline_options, objs, stack, config_checklist,
                   check_trace>>

Next ==
    \/ NewKconfigCheck
    \/ NewVersionCheckObj
    \/ NewOR
    \/ NewAND
    \/ AddToChecklist
    \/ ParseKconfigFile
    \/ PopulateKconfig
    \/ PopulateVersion
    \/ PerformChecks
    \/ PrintChecklist

Spec == Init /\ [][Next]_vars

----------------------------------------------------------------------------
(* SpecCmdline: main() on the cmdline rules, over the --cmdline files *)

\* names of cmdline parameters: two that normalize_cmdline_options exempts, two
\* it does not
CmdlineNames == {"rodata", "slab_nomerge", "pti", "debugfs"}

\* values of cmdline parameters: the spellings of kstrtobool() and others
CmdlineValues == TrueSpellings \cup FalseSpellings \cup {"", "full", "a=b"}

\* the tokens 'name=value' and 'name'
CmdlineTokens == {n \o "=" \o v : n \in CmdlineNames, v \in CmdlineValues} \cup CmdlineNames

\* --cmdline files: one token on one line; several tokens; no line, an empty
\* line, a line without its line break; a second line, empty or not
CmdlineRunFiles ==
    {<<t \o "\n">> : t \in CmdlineTokens}
        \cup {<<"rodata=0 nopti\n">>,
              <<"  rodata=on   slab_nomerge pti=on\n">>,
              <<"rodata=y rodata=full\n">>,
              <<>>,
              <<"\n">>,
              <<"rodata=1">>,
              <<"rodata=1\n", "\n">>,
              <<"rodata=1\n", "pti=on\n">>,
              <<"\n", "rodata=1\n">>,
              <<"rodata=1\n", "\n", "pti=on\n">>}

\* --config files of these runs
CmdlineRunKconfigFiles ==
    {<<>>, <<"CONFIG_RODATA_DEFAULT=y\n">>, <<"CONFIG_RODATA_FULL_DEFAULT_ENABLED=y\n">>,
     <<"# CONFIG_LDISC_AUTOLOAD is not set\n">>, <<"CONFIG_LDISC_AUTOLOAD=y\n">>,
     <<"CONFIG_RODATA_DEFAULT=y\n", "# CONFIG_LDISC_AUTOLOAD is not set\n">>}

\* the checks of these runs: the pattern of add_cmdline_checks for a parameter
\* that overrides a kconfig default (objects 1-5), its instance for ARM64
\* (6-10), the rule for rodata of the other architectures (11-13), a presence
\* check, a check for 'is not set' and a value check, an AND with a version
\* check (17-19), and the LDISC_AUTOLOAD rule of add_kconfig_checks (20-22)
CmdlineRunChecks ==
    <<NewOptCheck("CmdlineCheck", "self_protection", "defconfig", "rodata", Some("1")),
      NewOptCheck("KconfigCheck", "self_protection", "defconfig", "RODATA_DEFAULT", Some("y")),
      NewOptCheck("CmdlineCheck", "self_protection", "defconfig", "rodata", Some("is not set")),
      NewComplexOptCheck("AND", <<2, 3>>),
      NewComplexOptCheck("OR", <<1, 4>>),
      NewOptCheck("CmdlineCheck", "self_protection", "defconfig", "rodata", Some("full")),
      NewOptCheck("KconfigCheck", "self_protection", "defconfig",
                  "RODATA_FULL_DEFAULT_ENABLED", Some("y")),
      NewOptCheck("CmdlineCheck", "self_protection", "defconfig", "rodata", Some("is not set")),
      NewComplexOptCheck("AND", <<7, 8>>),
      NewComplexOptCheck("OR", <<6, 9>>),
      NewOptCheck("CmdlineCheck", "self_protection", "defconfig", "rodata", Some("1")),
      NewOptCheck("CmdlineCheck", "self_protection", "defconfig", "rodata", Some("is not set")),
      NewComplexOptCheck("OR", <<11, 12>>),
      NewOptCheck("CmdlineCheck", "self_protection", "kspp", "slab_nomerge", None),
      NewOptCheck("CmdlineCheck", "self_protection", "kspp", "slab_nomerge", Some("is not set")),
      NewOptCheck("CmdlineCheck", "self_protection", "kspp", "pti", Some("on")),
      NewVersionCheck(<<5, 10>>),
      NewOptCheck("KconfigCheck", "self_protection", "defconfig", "RODATA_DEFAULT", Some("y")),
      NewComplexOptCheck("AND", <<18, 17>>),
      NewOptCheck("KconfigCheck", "cut_attack_surface", "clipos", "LDISC_AUTOLOAD",
                  Some("is not set")),
      NewOptCheck("KconfigCheck", "cut_attack_surface", "clipos", "LDISC_AUTOLOAD", None),
      NewComplexOptCheck("AND", <<20, 21>>)>>

\* the identities on the list
CmdlineRunList == <<5, 10, 13, 14, 15, 16, 19, 22>>

InitCmdline ==
    /\ pc = "parse_kconfig"
    /\ arch = Some("X86_64")
    /\ kconfig_file \in CmdlineRunKconfigFiles
    /\ cmdline_file \in {Some(f) : f \in CmdlineRunFiles}
    /\ line_no = 1
    /\ parsed_kconfig_options = <<>>
    /\ parsed_cmdline_options = <<>>
    /\ kernel_version = <<5, 10>>
    /\ objs = CmdlineRunChecks
    /\ stack = <<>>
    /\ config_checklist = CmdlineRunList
    /\ exit_msg = None
    /\ check_trace = <<>>

SpecCmdline == InitCmdline /\ [][NextRun]_vars

----------------------------------------------------------------------------
(* SpecMain: main() from detect_arch to the printed results *)

\* the banner lines at the head of a --config file: none; a version of three
\* components; a release candidate; two components; a component that is not a
\* number; no version; an unparseable banner before a good one; two good
\* banners; a good banner after another comment
MainBanners ==
    {<<>>,
     <<"# Linux/x86 5.10.0 Kernel Configuration\n">>,
     <<"# Linux/arm64 4.19.1-rc1 Kernel Configuration\n">>,
     <<"# Linux/x86 5.10 Kernel Configuration\n">>,
     <<"# Linux/x86 5.x.0 Kernel Configuration\n">>,
     <<"# Linux/x86 Kernel Configuration\n">>,
     <<"# Linux/x86 5.10 Kernel Configuration\n", "# Linux/x86 5.10.0 Kernel Configuration\n">>,
     <<"# Linux/x86 5.10.0 Kernel Configuration\n",
       "# Linux/arm64 4.19.1-rc1 Kernel Configuration\n">>,
     <<"#\n", "# Linux/x86 5.10.0 Kernel Configuration\n">>}

\* the lines of a --config file that name architectures
MainArchLines ==
    {<<>>,
     <<"CONFIG_X86_64=y\n">>,
     <<"CONFIG_ARM64=y\n">>,
     <<"CONFIG_ARM=y\n">>,
     <<"CONFIG_X86=y\n", "CONFIG_X86_64=y\n">>,
     <<"# CONFIG_X86_64 is not set\n", "CONFIG_ARM64=y\n">>,
     <<"CONFIG_X86_32=m\n">>,
     <<"CONFIG_X86_64=y\n", "CONFIG_ARM64=y\n">>,
     <<"CONFIG_X86_64=y\n", "CONFIG_X86_64=y\n">>}

\* the other option lines of a --config file
MainOptionLines ==
    {"CONFIG_MODULES=y\n",
     "# CONFIG_MODULES is not set\n",
     "CONFIG_IOMMU_SUPPORT=y\n",
     "CONFIG_INTEL_IOMMU=y\n",
     "CONFIG_MODULES=is not set\n",
     "# CONFIG_IOMMU_SUPPORT is not set yet\n"}

MainKconfigFiles ==
    {b \o a \o o : b \in MainBanners, a \in MainArchLines,
                   o \in SeqsUpTo(MainOptionLines, MaxLines - 1)}

MainCmdlineFiles == {<<"rodata=1\n">>, <<"rodata=1\n", "\n">>}

\* add_kconfig_checks(l, arch): the objects it constructs and the list l.
\* modules_not_set (1) and iommu_support_is_set (5) are children of compound
\* checks and members of the list.
add_kconfig_checks(a) ==
    LET common ==
            <<NewOptCheck("KconfigCheck", "cut_attack_surface", "kspp", "MODULES",
                          Some("is not set")),
              NewOptCheck("KconfigCheck", "self_protection", "defconfig",
                          "STRICT_MODULE_RWX", Some("y")),
              NewOptCheck("KconfigCheck", "self_protection", "defconfig",
                          "DEBUG_SET_MODULE_RONX", Some("y")),
              NewComplexOptCheck("OR", <<2, 3, 1>>),
              NewOptCheck("KconfigCheck", "self_protection", "defconfig",
                          "IOMMU_SUPPORT", Some("y"))>>
    IN  IF a = "X86_64"
        THEN [objs |-> common \o
                        <<NewOptCheck("KconfigCheck", "self_protection", "defconfig",
                                      "INTEL_IOMMU", Some("y")),
                          NewComplexOptCheck("AND", <<6, 5>>)>>,
              l |-> <<4, 5, 7, 1>>]
        ELSE IF a = "ARM64"
        THEN [objs |-> common \o
                        <<NewOptCheck("KconfigCheck", "self_protection", "defconfig",
                                      "HARDEN_BRANCH_PREDICTOR", Some("y")),
                          NewVersionCheck(<<5, 10>>),
                          NewComplexOptCheck("OR", <<6, 7>>)>>,
              l |-> <<4, 5, 8, 1>>]
        ELSE [objs |-> common, l |-> <<4, 5, 1>>]

\* add_cmdline_checks(l, arch), after n objects: the objects it constructs and
\* what it appends to l
add_cmdline_checks(a, n) ==
    IF a = "ARM64"
    THEN [objs |-> <<NewOptCheck("CmdlineCheck", "self_protection", "defconfig", "rodata",
                                 Some("full")),
                     NewOptCheck("KconfigCheck", "self_protection", "defconfig",
                                 "RODATA_FULL_DEFAULT_ENABLED", Some("y")),
                     NewOptCheck("CmdlineCheck", "self_protection", "defconfig", "rodata",
                                 Some("is not set")),
                     NewComplexOptCheck("AND", <<n + 2, n + 3>>),
                     NewComplexOptCheck("OR", <<n + 1, n + 4>>)>>,
          l |-> <<n + 5>>]
    ELSE [objs |-> <<NewOptCheck("CmdlineCheck", "self_protection", "defconfig", "rodata",
                                 Some("1")),
                     NewOptCheck("CmdlineCheck", "self_protection", "defconfig", "rodata",
                                 Some("is not set")),
                     NewComplexOptCheck("OR", <<n + 1, n + 2>>)>>,
          l |-> <<n + 3>>]

\* what detect_arch, detect_version and the construction of the list leave alone
DetectFrame ==
    UNCHANGED <<kconfig_file, cmdline_file, line_no, parsed_kconfig_options,
                parsed_cmdline_options, stack, check_trace>>

\* arch, msg = detect_arch(args.config, supported_archs)
DetectArch ==
    /\ pc = "detect_arch"
    /\ LET r == detect_arch(kconfig_file, supported_archs)
       IN  IF r.arch = None
           THEN Die(Some("[!] ERROR: " \o r.msg)) /\ UNCHANGED arch
           ELSE arch' = r.arch /\ pc' = "detect_version" /\ UNCHANGED exit_msg
    /\ UNCHANGED <<kernel_version, objs, config_checklist>>
    /\ DetectFrame

\* kernel_version, msg = detect_version(args.config)
DetectVersion ==
    /\ pc = "detect_version"
    /\ LET r == detect_version(kconfig_file)
       IN  IF r.ver = None
           THEN Die(Some("[!] ERROR: " \o r.msg[1])) /\ UNCHANGED kernel_version
           ELSE kernel_version' = r.ver /\ pc' = "add_kconfig_checks" /\ UNCHANGED exit_msg
    /\ UNCHANGED <<arch, objs, config_checklist>>
    /\ DetectFrame

\* add_kconfig_checks(config_checklist, arch) and, with --cmdline,
\* add_cmdline_checks(config_checklist, arch)
AddChecks ==
    /\ pc = "add_kconfig_checks"
    /\ LET k == add_kconfig_checks(arch[1])
           c == add_cmdline_checks(arch[1], Len(k.objs))
       IN  IF cmdline_file # None
           THEN objs' = k.objs \o c.objs /\ config_checklist' = k.l \o c.l
           ELSE objs' = k.objs /\ config_checklist' = k.l
    /\ pc' = "parse_kconfig"
    /\ UNCHANGED <<arch, kernel_version, exit_msg>>
    /\ DetectFrame

InitMain ==
    /\ pc = "detect_arch"
    /\ arch = None
    /\ kconfig_file \in MainKconfigFiles
    /\ cmdline_file \in {None} \cup {Some(f) : f \in MainCmdlineFiles}
    /\ line_no = 1
    /\ parsed_kconfig_options = <<>>
    /\ parsed_cmdline_options = <<>>
    /\ kernel_version = <<>>
    /\ objs = <<>>
    /\ stack = <<>>
    /\ config_checklist = <<>>
    /\ exit_msg = None
    /\ check_trace = <<>>

NextMain ==
    \/ DetectArch
    \/ DetectVersion
    \/ AddChecks
    \/ ParseKconfigLine
    \/ PopulateKconfig
    \/ PopulateVersion
    \/ ParseCmdlineFile
    \/ PopulateCmdline
    \/ PerformChecks
    \/ PrintChecklist

SpecMain == InitMain /\ [][NextMain]_vars

----------------------------------------------------------------------------
(* Properties *)

\* the simple kconfig and cmdline checks of the heap
OptChecks == {i \in 1..Len(objs) : objs[i].cls \in {"KconfigCheck", "CmdlineCheck"}}

VersionChecks == {i \in 1..Len(objs) : objs[i].cls = "VersionCheck"}

\* perform_checks has run to its end
Performed == pc \in {"print_checklist", "done"}

\* the parsed map a simple check is populated from
DataOf(o) ==
    IF o.cls = "KconfigCheck" THEN parsed_kconfig_options ELSE parsed_cmdline_options

IsOK(r) == r # None /\ StartsWith(r[1], "OK")
IsFAIL(r) == r # None /\ StartsWith(r[1], "FAIL")

\* C1, for one evaluated simple check
C1_Table(o) ==
    IF o.expected = None
    THEN /\ (o.result = Some("OK: is present")) <=> (o.state # None)
         /\ (o.result = Some("FAIL: not present")) <=> (o.state = None)
    ELSE IF o.expected # Some("is not set")
    THEN /\ (o.result = Some("OK")) <=> (o.state = o.expected)
         /\ (o.result = Some("FAIL: not found")) <=> (o.state = None)
         /\ (o.state # None /\ o.state # o.expected)
                => o.result = Some("FAIL: \"" \o o.state[1] \o "\"")
    ELSE TRUE

\* C1: once perform_checks has run, every evaluated kconfig or cmdline check holds
\* the result of the table: without an expected value 'OK: is present' iff the
\* state is not absent and 'FAIL: not present' otherwise; with an expected value E
\* other than 'is not set', 'OK' iff the state is E, 'FAIL: not found' iff the state
\* is absent, and 'FAIL: "<state>"' otherwise. Every top-level check is evaluated.
C1_OptCheckTable ==
    Performed =>
        /\ \A i \in OptChecks : objs[i].result # None => C1_Table(objs[i])
        /\ \A k \in 1..Len(config_checklist) : objs[config_checklist[k]].result # None

\* C1 witness: CONFIG_BUG is present with the empty string as its value; the
\* presence check passes on it and the value check reports it
C1_Witness ==
    /\ pc = "done"
    /\ objs[1].state = Some("")
    /\ objs[1].result = Some("FAIL: \"\"")
    /\ objs[2].result = Some("OK: is present")
    /\ cmdline_file # None
    /\ objs[13].state = Some("")
    /\ objs[13].result = Some("OK: is present")

\* C2 as stated: a check expecting 'is not set' passes iff its option is not a key
\* of the parsed map it is populated from
C2_PassIffNotAKey ==
    Performed =>
        \A i \in OptChecks :
            (objs[i].expected = Some("is not set") /\ objs[i].result # None)
                => (IsOK(objs[i].result) <=> ~Has(DataOf(objs[i]), objs[i].name))

\* C2 amended: a check expecting 'is not set' passes iff its option is not a key of
\* the parsed map or the map holds the string 'is not set' for it (the entry of a
\* '# NAME is not set' line)
C2_PassIffAbsentOrDisabled ==
    Performed =>
        \A i \in OptChecks :
            (objs[i].expected = Some("is not set") /\ objs[i].result # None)
                => (IsOK(objs[i].result)
                       <=> Get(DataOf(objs[i]), objs[i].name) \in {None, Some("is not set")})

\* C2 witness: the check on BUG passes on an explicitly disabled CONFIG_BUG, the
\* check on EFI passes on a file that does not mention CONFIG_EFI, and the cmdline
\* check fails on a bare rodata
C2_Witness ==
    /\ pc = "done"
    /\ Get(parsed_kconfig_options, "CONFIG_BUG") = Some("is not set")
    /\ objs[3].result = Some("OK")
    /\ ~Has(parsed_kconfig_options, "CONFIG_EFI")
    /\ objs[4].result = Some("OK: not found")
    /\ cmdline_file # None
    /\ Get(parsed_cmdline_options, "rodata") = Some("")
    /\ objs[14].result = Some("FAIL: \"\"")

\* (actual.major, actual.minor) >= (required.major, required.minor), lexicographic
C3_LexGE(a, r) == a[1] > r[1] \/ (a[1] = r[1] /\ a[2] >= r[2])

\* the required bounds of the checklist, as '<major>.<minor>'
C3_BoundText(r) == CASE r = <<5, 10>> -> "5.10" [] r = <<4, 20>> -> "4.20"

\* C3: every evaluated version check holds 'OK: version >= M.m' iff the populated
\* pair is lexicographically at least the required pair (M, m), and
\* 'FAIL: version < M.m' otherwise
C3_VersionCheckLex ==
    Performed =>
        \A i \in VersionChecks :
            /\ objs[i].result # None
            /\ objs[i].ver = kernel_version
            /\ objs[i].result =
                  IF C3_LexGE(objs[i].ver, objs[i].ver_expected)
                  THEN Some("OK: version >= " \o C3_BoundText(objs[i].ver_expected))
                  ELSE Some("FAIL: version < " \o C3_BoundText(objs[i].ver_expected))

\* C3 witness: 6.0 passes both bounds, 5.10 with a greater major and a smaller minor
C3_Witness ==
    /\ pc = "done"
    /\ kernel_version = <<6, 0>>
    /\ objs[7].result = Some("OK: version >= 5.10")
    /\ objs[10].result = Some("OK: version >= 4.20")

\* the option names that occur in the lines of KconfigLines
OptionNames == {"CONFIG_BUG", "CONFIG_EFI"}

\* the stripped line s enables n: 'n=value', value not the words 'is not set'
WellFormedEnabled(s, n) == StartsWith(s, n \o "=") /\ Drop(s, Len(n) + 1) # "is not set"

\* the stripped line s disables n
WellFormedDisabled(s, n) == s = "# " \o n \o " is not set"

\* line j of the --config file defines option n
Defines(j, n) ==
    LET s == Strip(kconfig_file[j])
    IN  WellFormedEnabled(s, n) \/ WellFormedDisabled(s, n)

DisabledInFile(n) ==
    \E j \in 1..Len(kconfig_file) : WellFormedDisabled(Strip(kconfig_file[j]), n)

DefinedInFile(n) == \E j \in 1..Len(kconfig_file) : Defines(j, n)

\* the kconfig pass of population is over
KconfigPopulated ==
    pc \in {"populate_version", "parse_cmdline", "populate_cmdline", "perform_checks",
            "print_checklist", "done"}

KconfigChecks == {i \in 1..Len(objs) : objs[i].cls = "KconfigCheck"}

\* C8 as stated: an option that a '# NAME is not set' line disables is bound as
\* absent, like an option the file does not mention
C8_DisabledBoundAbsent ==
    KconfigPopulated =>
        \A i \in KconfigChecks : DisabledInFile(objs[i].name) => objs[i].state = None

\* C8 amended: parse_kconfig_file maps every '# NAME is not set' line to the entry
\* (NAME, 'is not set'); population binds that string for a disabled option and
\* absent for an option no line defines, so the two differ
C8_DisabledBoundIsNotSet ==
    /\ \A j \in 1..(line_no - 1) : \A n \in OptionNames :
          WellFormedDisabled(Strip(kconfig_file[j]), n)
              => Get(parsed_kconfig_options, n) = Some("is not set")
    /\ KconfigPopulated =>
          \A i \in KconfigChecks :
              /\ DisabledInFile(objs[i].name) => objs[i].state = Some("is not set")
              /\ ~DefinedInFile(objs[i].name) => objs[i].state = None

\* C8 witness: CONFIG_EFI is disabled by a line and CONFIG_BUG is missing; the
\* presence check on EFI passes and the one on BUG fails
C8_Witness ==
    /\ pc = "done"
    /\ DisabledInFile("CONFIG_EFI")
    /\ ~DefinedInFile("CONFIG_BUG")
    /\ objs[5].state = Some("is not set")
    /\ objs[5].result = Some("OK: is present")
    /\ objs[2].state = None
    /\ objs[2].result = Some("FAIL: not present")

\* the stripped line s matches the enabled, the disabled pattern
MatchesEnabled(s) == \E n \in OptionNames : StartsWith(s, n \o "=")
MatchesDisabled(s) == \E n \in OptionNames : StartsWith(s, "# " \o n \o " is not set")

\* C9: a pass of the loop on a well-formed enabled line 'NAME=value' appends the
\* entry (NAME, text after the first '=') to the map, unless NAME is already
\* defined, which ends the run; a pass on a line that matches neither pattern
\* leaves the map as it is and goes on
C9_EnabledLineAddsEntry ==
    [][ParseKconfigLine =>
          LET s == Strip(kconfig_file[line_no])
          IN  /\ \A n \in OptionNames :
                    WellFormedEnabled(s, n) =>
                        IF Has(parsed_kconfig_options, n)
                        THEN pc' = "exited"
                        ELSE /\ parsed_kconfig_options' =
                                    Append(parsed_kconfig_options, <<n, Drop(s, Len(n) + 1)>>)
                             /\ pc' = "parse_kconfig"
              /\ (~MatchesEnabled(s) /\ ~MatchesDisabled(s)) =>
                    /\ parsed_kconfig_options' = parsed_kconfig_options
                    /\ pc' = "parse_kconfig"]_vars

\* C9 witness: three lines read, the entries of the two enabled ones in file order,
\* the second with surrounding blanks and a second '=' in its value
C9_Witness ==
    /\ pc = "parse_kconfig"
    /\ kconfig_file = <<"CONFIG_BUG=y\n", "# a comment\n", "  CONFIG_EFI=\"a=b\" \n">>
    /\ line_no = 4
    /\ parsed_kconfig_options = <<<<"CONFIG_BUG", "y">>, <<"CONFIG_EFI", "\"a=b\"">>>>

\* the message of the duplicate error for line j
DuplicateMsg(j) ==
    Some("[!] ERROR: kconfig option \"" \o Strip(kconfig_file[j]) \o "\" exists multiple times")

\* line j defines an option that an earlier line defines
SecondDefinition(j) ==
    \E n \in OptionNames : Defines(j, n) /\ \E i \in 1..(j - 1) : Defines(i, n)

\* C10: the parser never gets past a line that defines an option an earlier line
\* defines: it ends the run there with the duplicate error, and it raises that
\* error at no other line
C10_DuplicateIsFatal ==
    /\ \A j \in 1..(line_no - 1) : ~SecondDefinition(j)
    /\ (pc = "exited" /\ line_no <= Len(kconfig_file))
          => (exit_msg = DuplicateMsg(line_no) <=> SecondDefinition(line_no))

\* C10 witness: CONFIG_BUG enabled, an unrelated line, CONFIG_BUG disabled: the run
\* ends at the third line with the duplicate error
C10_Witness ==
    /\ pc = "exited"
    /\ kconfig_file = <<"CONFIG_BUG=y\n", "# a comment\n", "# CONFIG_BUG is not set\n">>
    /\ line_no = 3
    /\ exit_msg = Some("[!] ERROR: kconfig option \"# CONFIG_BUG is not set\" exists multiple times")

\* perform_checks has been called (it may have ended in an error)
ChecksRan == check_trace # <<>>

\* check() of this object was called during perform_checks
Invoked(id) == \E k \in 1..Len(check_trace) : check_trace[k] = id

ORs == {i \in 1..Len(objs) : objs[i].cls = "OR"}
ANDs == {i \in 1..Len(objs) : objs[i].cls = "AND"}

\* on the populated heap: child c, checked, returns and passes; returns and fails
Passes(c) == LET r == check(objs, c) IN r.raised = None /\ IsOK(r.objs[c].result)
Fails(c) == LET r == check(objs, c) IN r.raised = None /\ ~IsOK(r.objs[c].result)

\* the result child c holds once checked on the populated heap
ResultOf(c) == check(objs, c).objs[c].result

Min(S) == CHOOSE x \in S : \A y \in S : x <= y

\* the results an OR may derive from its passing child c
C4_DerivedFrom(c) ==
    {ResultOf(c),
     Some("OK: " \o Name(objs, c) \o " \"" \o FormatExpected(Expected(objs, c)) \o "\""),
     Some("OK: " \o Name(objs, c) \o " not found"),
     Some("OK: " \o Name(objs, c) \o " is present")}

\* C4: every OR whose check() was called has returned; its result is OK iff one of
\* its children passes, and is then derived from the first passing child; if no
\* child passes its result is the result of child 0
C4_OrResult ==
    ChecksRan =>
        \A id \in ORs :
            Invoked(id) =>
                LET kids == objs[id].opts
                    passing == {i \in 1..Len(kids) : Passes(kids[i])}
                IN  /\ check(objs, id).raised = None
                    /\ IsOK(objs[id].result) <=> passing # {}
                    /\ passing # {} =>
                          /\ objs[id].result \in C4_DerivedFrom(kids[Min(passing)])
                          /\ Min(passing) = 1 => objs[id].result = ResultOf(kids[1])
                    /\ passing = {} => objs[id].result = ResultOf(kids[1])

\* the result C5 gives an AND whose auxiliary child c failed
C5_Blocked(c) ==
    IF objs[c].cls = "VersionCheck" THEN ResultOf(c)
    ELSE IF ResultOf(c) = Some("FAIL: not present")
    THEN Some("FAIL: " \o Name(objs, c) \o " not present")
    ELSE Some("FAIL: " \o Name(objs, c) \o " not \""
                \o FormatExpected(Expected(objs, c)) \o "\"")

\* C5: every AND whose check() was called has returned; if all its auxiliary
\* children pass its result is the result of child 0, and if one fails its result
\* is FAIL and names a failing auxiliary child
C5_AndResult ==
    ChecksRan =>
        \A id \in ANDs :
            Invoked(id) =>
                LET kids == objs[id].opts
                    aux  == 2..Len(kids)
                IN  /\ (\A i \in aux : Passes(kids[i])) =>
                          /\ check(objs, id).raised = None
                          /\ objs[id].result = ResultOf(kids[1])
                    /\ (\E i \in aux : Fails(kids[i])) =>
                          /\ check(objs, id).raised = None
                          /\ IsFAIL(objs[id].result)
                          /\ \E i \in aux :
                                Fails(kids[i]) /\ objs[id].result = C5_Blocked(kids[i])

\* C6: once perform_checks has been called, no check() has raised an error and
\* every top-level check holds an OK or a FAIL result
C6_EvaluationTotal ==
    ChecksRan =>
        /\ pc # "exited"
        /\ \A k \in 1..Len(config_checklist) :
              IsOK(objs[config_checklist[k]].result)
                  \/ IsFAIL(objs[config_checklist[k]].result)

\* C7, for the OR id that passed through its child c at index i
C7_Annotated(id, c, i) ==
    LET r == objs[id].result
        n == Name(objs, c)
    IN  /\ i = 1 => r = objs[c].result
        /\ (i > 1 /\ objs[c].result = Some("OK")) =>
              r = Some("OK: " \o n \o " \"" \o Expected(objs, c)[1] \o "\"")
        /\ (i > 1 /\ objs[c].result = Some("OK: is present")) =>
              r = Some("OK: " \o n \o " is present")
        /\ (i > 1 /\ objs[c].result = Some("OK: not found")) =>
              r = Some("OK: " \o n \o " not found")
        /\ (i > 1 /\ objs[c].cls = "VersionCheck") =>
              /\ r = objs[c].result
              /\ StartsWith(r[1], "OK: version >= ")

\* C7: an OR whose check() was called and whose first passing child is at index
\* i > 0 holds 'OK: <name> "<expected>"' when that child's result is 'OK',
\* 'OK: <name> is present' and 'OK: <name> not found' when it is the result of
\* that name, and the child's own text when the child is a version check; at
\* index 0 it holds the child's result unchanged. An OR of CONFIG_BUG=y and
\* CONFIG_EFI=y on a file with only CONFIG_EFI=y holds 'OK: CONFIG_EFI "y"'.
C7_OrAnnotation ==
    ChecksRan =>
        \A id \in ORs :
            (Invoked(id) /\ objs[id].result # None) =>
                LET kids == objs[id].opts
                    ok   == {i \in 1..Len(kids) : IsOK(objs[kids[i]].result)}
                IN  /\ ok # {} => C7_Annotated(id, kids[Min(ok)], Min(ok))
                    /\ ( /\ Len(kids) = 2
                         /\ objs[kids[1]].name = "CONFIG_BUG"
                         /\ objs[kids[1]].expected = Some("y")
                         /\ objs[kids[2]].name = "CONFIG_EFI"
                         /\ objs[kids[2]].expected = Some("y")
                         /\ kconfig_file = <<"CONFIG_EFI=y\n">> )
                       => objs[id].result = Some("OK: CONFIG_EFI \"y\"")

\* C7 witness: the OR of CONFIG_BUG=y and CONFIG_EFI=y, evaluated on a file with
\* only CONFIG_EFI=y, has passed through its second child
C7_Witness ==
    /\ pc = "done"
    /\ kconfig_file = <<"CONFIG_EFI=y\n">>
    /\ Len(objs) = 3
    /\ objs[3].cls = "OR"
    /\ objs[1].name = "CONFIG_BUG" /\ objs[1].expected = Some("y")
    /\ objs[2].name = "CONFIG_EFI" /\ objs[2].expected = Some("y")
    /\ objs[1].result = Some("FAIL: not found")
    /\ objs[2].result = Some("OK")
    /\ objs[3].result = Some("OK: CONFIG_EFI \"y\"")

\* parse_cmdline_file has returned
CmdlineParsed ==
    cmdline_file # None
        /\ pc \in {"populate_cmdline", "perform_checks", "print_checklist", "done"}

\* the run ended in parse_cmdline_file's error
CmdlineFatal ==
    pc = "exited" /\ exit_msg = Some("[!] ERROR: more than one line in the cmdline file")

\* the lines of the --cmdline file that hold more than blanks
C11_NonEmptyLines == {j \in 1..Len(cmdline_file[1]) : Strip(cmdline_file[1][j]) # ""}

\* C11 as stated: parse_cmdline_file ends the run with its error iff the file has
\* more than one non-empty line
C11_FatalIffTwoNonEmptyLines ==
    /\ CmdlineFatal => Cardinality(C11_NonEmptyLines) > 1
    /\ CmdlineParsed => Cardinality(C11_NonEmptyLines) <= 1

\* C11 amended: parse_cmdline_file ends the run with its error iff the file has a
\* second line at all, an empty one included; a file of at most one line is
\* accepted and the tokens of that line are parsed
C11_FatalIffSecondLine ==
    /\ CmdlineFatal => Len(cmdline_file[1]) > 1
    /\ CmdlineParsed =>
          /\ Len(cmdline_file[1]) <= 1
          /\ Len(parsed_cmdline_options) = 0
                <=> (cmdline_file[1] = <<>> \/ Split(cmdline_file[1][1]) = <<>>)

\* C11 witness: one line of tokens followed by an empty line ends the run with
\* the error
C11_Witness ==
    /\ CmdlineFatal
    /\ cmdline_file = Some(<<"rodata=1\n", "\n">>)
    /\ parsed_cmdline_options = <<>>
    /\ check_trace = <<>>

\* the whitespace-separated tokens of the one line of an accepted --cmdline file
C12_Tokens == IF cmdline_file[1] = <<>> THEN <<>> ELSE Split(cmdline_file[1][1])

\* the parameter names that occur in the --cmdline files
C12_Names == CmdlineNames \cup {"nopti"}

\* token t sets parameter n: it is 'n' or 'n=value'
C12_Sets(t, n) == t = n \/ StartsWith(t, n \o "=")

\* the token that decides parameter n is the last one that sets it
C12_Decides(i, n) ==
    /\ C12_Sets(C12_Tokens[i], n)
    /\ \A j \in (i + 1)..Len(C12_Tokens) : ~C12_Sets(C12_Tokens[j], n)

\* C12: once parse_cmdline_file has returned, a parameter set by a token
\* 'name=value' maps to normalize(name, text after the first '='), a parameter
\* set by a bare token 'name' maps to the empty string, and a parameter that no
\* token sets is absent. On a bare token the presence check passes and the
\* check expecting 'is not set' fails with the empty value; on an absent
\* parameter the presence check fails and the other passes as 'not found'.
C12_TokenEntries ==
    /\ CmdlineParsed =>
          \A n \in C12_Names :
              /\ \A i \in 1..Len(C12_Tokens) :
                    C12_Decides(i, n) =>
                        Get(parsed_cmdline_options, n) =
                            IF C12_Tokens[i] = n THEN Some("")
                            ELSE Some(normalize_cmdline_options(
                                          n, Drop(C12_Tokens[i], Len(n) + 1)))
              /\ (\A i \in 1..Len(C12_Tokens) : ~C12_Sets(C12_Tokens[i], n))
                    => Get(parsed_cmdline_options, n) = None
    /\ (CmdlineParsed /\ Performed) =>
          /\ (\E i \in 1..Len(C12_Tokens) :
                 C12_Decides(i, "slab_nomerge") /\ C12_Tokens[i] = "slab_nomerge")
                => /\ objs[14].result = Some("OK: is present")
                   /\ objs[15].result = Some("FAIL: \"\"")
          /\ (\A i \in 1..Len(C12_Tokens) : ~C12_Sets(C12_Tokens[i], "slab_nomerge"))
                => /\ objs[14].result = Some("FAIL: not present")
                   /\ objs[15].result = Some("OK: not found")

\* C12 witness: a line with two 'name=value' tokens and the bare token
\* slab_nomerge; the presence check on slab_nomerge passed and the check
\* expecting 'is not set' failed with the empty value
C12_Witness ==
    /\ pc = "done"
    /\ cmdline_file = Some(<<"  rodata=on   slab_nomerge pti=on\n">>)
    /\ parsed_cmdline_options =
          <<<<"rodata", "1">>, <<"slab_nomerge", "">>, <<"pti", "on">>>>
    /\ objs[14].result = Some("OK: is present")
    /\ objs[15].result = Some("FAIL: \"\"")

\* C13, the table: the value of parameter option after normalization
C13_Table(option, value) ==
    CASE option \in {"pti", "debugfs"} -> value
      [] option \notin {"pti", "debugfs"}
           /\ value \in {"1", "on", "On", "ON", "y", "Y", "yes", "Yes", "YES"} -> "1"
      [] option \notin {"pti", "debugfs"}
           /\ value \in {"0", "off", "Off", "OFF", "n", "N", "no", "No", "NO"} -> "0"
      [] OTHER -> value

\* C13: for every name and value, a --cmdline file with the one token
\* 'name=value' is parsed to the one entry (name, v) where v is the value itself
\* for pti and debugfs, '1' for a truthy spelling, '0' for a falsy spelling and
\* the value itself otherwise; normalizing v again gives v
C13_NormalizeTable ==
    CmdlineParsed =>
        \A n \in CmdlineNames, v \in CmdlineValues :
            cmdline_file = Some(<<n \o "=" \o v \o "\n">>) =>
                /\ parsed_cmdline_options = <<<<n, C13_Table(n, v)>>>>
                /\ normalize_cmdline_options(n, parsed_cmdline_options[1][2])
                      = parsed_cmdline_options[1][2]
                /\ normalize_cmdline_options(n, normalize_cmdline_options(n, v))
                      = normalize_cmdline_options(n, v)

\* C13 witness: debugfs=off is kept as 'off'
C13_Witness ==
    /\ pc = "done"
    /\ cmdline_file = Some(<<"debugfs=off\n">>)
    /\ parsed_cmdline_options = <<<<"debugfs", "off">>>>

\* detect_arch has returned
ArchDetected == pc # "detect_arch"

\* the lines of the --config file that enable a supported architecture, and the
\* architecture such a line names
C14_Marker(line) ==
    CASE line = "CONFIG_X86_64=y\n" -> Some("X86_64")
      [] line = "CONFIG_X86_32=y\n" -> Some("X86_32")
      [] line = "CONFIG_ARM64=y\n" -> Some("ARM64")
      [] line = "CONFIG_ARM=y\n" -> Some("ARM")
      [] OTHER -> None

C14_Markers == {j \in 1..Len(kconfig_file) : C14_Marker(kconfig_file[j]) # None}

\* C14: once detect_arch has returned: if exactly one line of the file enables a
\* supported architecture, that architecture is the one detected; if no line
\* does, the run has ended with 'failed to detect architecture'; if two or more
\* do, even for the same architecture, the run has ended with 'more than one
\* supported architecture is detected'. No other line matters.
C14_DetectArch ==
    ArchDetected =>
        /\ Cardinality(C14_Markers) = 1 =>
              /\ \E j \in C14_Markers : arch = C14_Marker(kconfig_file[j])
              /\ exit_msg \notin
                    {Some("[!] ERROR: failed to detect architecture"),
                     Some("[!] ERROR: more than one supported architecture is detected")}
        /\ Cardinality(C14_Markers) = 0 =>
              /\ arch = None
              /\ pc = "exited"
              /\ exit_msg = Some("[!] ERROR: failed to detect architecture")
        /\ Cardinality(C14_Markers) >= 2 =>
              /\ arch = None
              /\ pc = "exited"
              /\ exit_msg = Some("[!] ERROR: more than one supported architecture is detected")

\* C14 witness: CONFIG_X86_64=y twice ends the run as ambiguous
C14_Witness ==
    /\ pc = "exited"
    /\ arch = None
    /\ \E i, j \in 1..Len(kconfig_file) :
          i < j /\ kconfig_file[i] = "CONFIG_X86_64=y\n" /\ kconfig_file[j] = "CONFIG_X86_64=y\n"
    /\ exit_msg = Some("[!] ERROR: more than one supported architecture is detected")

\* detect_version has returned
VersionDetected ==
    pc \notin {"detect_arch", "detect_version"}
        /\ (pc = "exited" => arch # None)

\* what the banner lines of the --config files carry: a version whose first two
\* of at least three components are numbers, or something else (None)
C15_Banner(line) ==
    CASE line = "# Linux/x86 5.10.0 Kernel Configuration\n" -> <<5, 10>>
      [] line = "# Linux/arm64 4.19.1-rc1 Kernel Configuration\n" -> <<4, 19>>
      [] line = "# Linux/x86 5.10 Kernel Configuration\n" -> None
      [] line = "# Linux/x86 5.x.0 Kernel Configuration\n" -> None
      [] line = "# Linux/x86 Kernel Configuration\n" -> None

C15_BannerLines ==
    {j \in 1..Len(kconfig_file) : StartsWith(kconfig_file[j], "# Linux/")}

\* C15: once detect_version has returned: if the first banner line carries a
\* version of at least three components whose first two are numbers, those two
\* numbers are the kernel version; if it carries anything else the run has ended
\* with 'failed to parse the version'; without a banner line the run has ended
\* with 'no kernel version detected'; a run that ended so has constructed,
\* populated and evaluated no check
C15_DetectVersion ==
    VersionDetected =>
        /\ C15_BannerLines # {} =>
              LET first == C15_Banner(kconfig_file[Min(C15_BannerLines)])
              IN  IF first # None
                  THEN kernel_version = first
                  ELSE /\ pc = "exited"
                       /\ StartsWith(exit_msg[1], "[!] ERROR: failed to parse the version \"")
        /\ C15_BannerLines = {} =>
              /\ pc = "exited"
              /\ exit_msg = Some("[!] ERROR: no kernel version detected")
        /\ kernel_version = <<>> =>
              /\ pc = "exited"
              /\ objs = <<>>
              /\ config_checklist = <<>>
              /\ check_trace = <<>>

\* C15 witness: the first banner has two components and a good banner follows;
\* the run has ended at the first
C15_Witness ==
    /\ pc = "exited"
    /\ arch # None
    /\ Len(kconfig_file) >= 2
    /\ kconfig_file[1] = "# Linux/x86 5.10 Kernel Configuration\n"
    /\ kconfig_file[2] = "# Linux/x86 5.10.0 Kernel Configuration\n"
    /\ exit_msg = Some("[!] ERROR: failed to parse the version \"5.10\"")
    /\ objs = <<>>

\* data a population pass of each kind may be given: the data of this run and
\* other data of the kind
C16_Data(kind) ==
    CASE kind = "kconfig" ->
             {parsed_kconfig_options, <<>>, <<<<"CONFIG_RODATA_DEFAULT", "is not set">>>>}
      [] kind = "cmdline" ->
             {parsed_cmdline_options, <<>>, <<<<"rodata", "0">>, <<"slab_nomerge", "">>>>}
      [] kind = "version" -> {kernel_version, <<4, 19>>}

\* the heap after the population pass of this kind with this data on heap h
C16_Pass(h, data, kind) == populate_with_data(h, config_checklist, data, kind).objs

\* the pass changed nothing of object i but its actual state
C16_OnlyState(before, after, i) ==
    after[i] = [before[i] EXCEPT !.state = after[i].state, !.ver = after[i].ver]

\* C16: on the checks of the list, in whatever state of population they are, a
\* pass of kind K changes at most the actual state (state, or ver for a version
\* check) of the simple checks of kind K and no other object; two passes of
\* different kinds give the same heap in either order; a pass repeated with the
\* same data changes nothing
C16_PopulationByKind ==
    \A k1 \in SIMPLE_OPTION_TYPES : \A d1 \in C16_Data(k1) :
        LET once == C16_Pass(objs, d1, k1)
        IN  /\ populate_with_data(objs, config_checklist, d1, k1).raised = None
            /\ Len(once) = Len(objs)
            /\ \A i \in 1..Len(objs) :
                  IF Type(objs[i]) = k1
                  THEN C16_OnlyState(objs, once, i)
                  ELSE once[i] = objs[i]
            /\ C16_Pass(once, d1, k1) = once
            /\ \A k2 \in SIMPLE_OPTION_TYPES \ {k1} : \A d2 \in C16_Data(k2) :
                  C16_Pass(once, d2, k2) = C16_Pass(C16_Pass(objs, d2, k2), d1, k1)

\* C16 witness: the three passes have run on checks of the three kinds, nested
\* in compound checks
C16_Witness ==
    /\ pc = "perform_checks"
    /\ cmdline_file = Some(<<"rodata=0 nopti\n">>)
    /\ objs[1].state = Some("0")
    /\ objs[2].state = Some("y")
    /\ objs[3].state = Some("0")
    /\ objs[17].ver = <<5, 10>>
    /\ objs[16].state = None

\* the fatal input errors of a run: no or more than one supported architecture,
\* no banner or a banner without a version, a contradictory or duplicate
\* kconfig line, a cmdline file of more than one line
C17_ArchError == detect_arch(kconfig_file, supported_archs).arch = None
C17_VersionError == detect_version(kconfig_file).ver = None
C17_KconfigError == parse_kconfig_file(kconfig_file).exit # None
C17_CmdlineError ==
    cmdline_file # None /\ parse_cmdline_file(cmdline_file[1]).exit # None
C17_FatalInput ==
    C17_ArchError \/ C17_VersionError \/ C17_KconfigError \/ C17_CmdlineError

\* the message the first of the errors of the input, in the order of main, ends
\* the run with
C17_Message ==
    IF C17_ArchError THEN Some("[!] ERROR: " \o detect_arch(kconfig_file, supported_archs).msg)
    ELSE IF C17_VersionError THEN Some("[!] ERROR: " \o detect_version(kconfig_file).msg[1])
    ELSE IF C17_KconfigError THEN parse_kconfig_file(kconfig_file).exit
    ELSE parse_cmdline_file(cmdline_file[1]).exit

\* C17: a run whose input has a fatal error never reaches perform_checks nor
\* print_checklist: no check() is invoked, no check has a result, and once the
\* error is reported the process has stopped (no step of main is possible); a
\* run stops with an error message only for such an input, with the message of
\* its first error
C17_FatalStopsBeforeChecks ==
    /\ \/ /\ pc \notin {"perform_checks", "print_checklist", "done"}
          /\ check_trace = <<>>
          /\ \A i \in 1..Len(objs) : objs[i].result = None
          /\ (exit_msg = None \/ exit_msg = C17_Message)
       \/ ~ C17_FatalInput
    /\ exit_msg # None <=> pc = "exited"
    /\ pc = "exited" => C17_FatalInput /\ ~ ENABLED NextMain

\* C17 witness: a cmdline file of two lines ends the run after the kconfig and
\* version data were bound to the checks, with no result
C17_Witness ==
    /\ pc = "exited"
    /\ exit_msg = Some("[!] ERROR: more than one line in the cmdline file")
    /\ \E i \in 1..Len(objs) : objs[i].state # None
    /\ \A i \in 1..Len(objs) : objs[i].result = None
    /\ check_trace = <<>>

\* C17 witness of the other errors: each kind of fatal input ends a run
C17_WitnessKconfig ==
    /\ pc = "exited"
    /\ ~ C17_ArchError /\ ~ C17_VersionError /\ C17_KconfigError
    /\ objs # <<>>

\* the compound checks of the heap
C18_Compounds == {i \in 1..Len(objs) : objs[i].cls \in {"OR", "AND"}}

\* every object of the heap is well constructed: a simple check has an
\* identity, a reason and a decision; a compound has two children or more, the
\* first a kconfig or cmdline simple check (no compound, no version check)
C18_WellConstructed ==
    /\ \A i \in OptChecks :
          /\ objs[i].name \notin {"", "CONFIG_"}
          /\ objs[i].reason # ""
          /\ objs[i].decision # ""
    /\ \A i \in C18_Compounds :
          /\ Len(objs[i].opts) >= 2
          /\ objs[i].opts[1] \in OptChecks
          /\ \A j \in 1..Len(objs[i].opts) : objs[i].opts[j] < i

\* a step is a constructor call that failed
C18_ConstructionFailed ==
    /\ pc = "add_checks"
    /\ pc' = "exited"
    /\ StartsWith(exit_msg'[1], "AssertionError: invalid ")

\* C18: no constructor call gives an ill-constructed object (so a call with an
\* empty identity, reason or decision, with no or one child, or with a compound
\* or a version check as first child fails), and a call that fails ends the run
\* with the heap as it was: no object is produced
C18_ConstructionAsserts ==
    /\ [](C18_WellConstructed)
    /\ [][C18_ConstructionFailed => objs' = objs /\ config_checklist' = config_checklist]_vars
    /\ [][pc = "add_checks" /\ objs' # objs
             => /\ Len(objs') = Len(objs) + 1
                /\ SubSeq(objs', 1, Len(objs)) = objs
                /\ pc' = "add_checks"]_vars

\* C18 witness: OR called with a single child failed
C18_Witness ==
    /\ pc = "exited"
    /\ exit_msg = Some("AssertionError: invalid OR check")
    /\ Len(stack) = 1
    /\ Len(objs) = 1

\* C18 witnesses of the other failures: AND with a compound as first child, a
\* simple check with an empty argument, and of a well-constructed nested rule
C18_WitnessFirstChild ==
    /\ pc = "exited"
    /\ exit_msg = Some("AssertionError: invalid AND check")
    /\ Len(stack) >= 2
    /\ \E k \in 2..Len(stack) : objs[stack[Len(stack) - k + 1]].cls \in {"OR", "AND"}
    /\ \A k \in 2..Len(stack) :
          objs[stack[Len(stack) - k + 1]].cls \in {"OR", "AND", "VersionCheck"}

C18_WitnessSimple ==
    /\ pc = "exited"
    /\ exit_msg = Some("AssertionError: invalid KconfigCheck check")
    /\ objs = <<>>

C18_WitnessNested ==
    \E i \in C18_Compounds : \E j \in 2..Len(objs[i].opts) :
        objs[i].opts[j] \in C18_Compounds

\* (the rule OR(CmdlineCheck rodata '1', AND(KconfigCheck RODATA_DEFAULT 'y',
\* CmdlineCheck rodata 'is not set')) is object 5 of the list, its children are
\* objects 1 and 4)

\* the input of the claim: rodata is given another value than '1' on the
\* command line and the kconfig file does not set CONFIG_RODATA_DEFAULT
C19_Input ==
    /\ Has(parsed_cmdline_options, "rodata")
    /\ Get(parsed_cmdline_options, "rodata") # Some("1")
    /\ ~ Has(parsed_kconfig_options, "CONFIG_RODATA_DEFAULT")

\* C19: with rodata given a value v other than '1' on the command line (the
\* cmdline 'rodata=0 nopti' gives v = '0') and CONFIG_RODATA_DEFAULT absent, the
\* rule fails with the failure of its first child, which shows the observed
\* value: FAIL: "v"; the failure of the AND branch is not what the rule reports
C19_FirstChildFailure ==
    Performed /\ C19_Input
       => /\ objs[5].result
                = Some("FAIL: \"" \o Get(parsed_cmdline_options, "rodata")[1] \o "\"")
          /\ objs[5].result = objs[1].result
          /\ IsFAIL(objs[4].result)
          /\ objs[4].result # objs[5].result
          /\ cmdline_file = Some(<<"rodata=0 nopti\n">>)
                => objs[5].result = Some("FAIL: \"0\"")

\* C19 witness: the run of the claim has ended
C19_Witness ==
    /\ pc = "done"
    /\ cmdline_file = Some(<<"rodata=0 nopti\n">>)
    /\ parsed_cmdline_options = <<<<"rodata", "0">>, <<"nopti", "">>>>
    /\ ~ Has(parsed_kconfig_options, "CONFIG_RODATA_DEFAULT")
    /\ objs[5].result = Some("FAIL: \"0\"")
    /\ objs[4].result = Some("FAIL: rodata not \"is not set\"")

\* the orderings of the checklist
C20_Orderings ==
    {[i \in 1..Len(config_checklist) |-> config_checklist[f[i]]] :
        f \in Permutations(1..Len(config_checklist))}

\* the sub-checks of a rule, the rule included
RECURSIVE C20_SubChecks(_)
C20_SubChecks(id) ==
    {id} \cup UNION {C20_SubChecks(objs[id].opts[j]) : j \in 1..Len(objs[id].opts)}

\* the check objects that are part of two rules of the list or more
C20_Shared ==
    {i \in 1..Len(objs) :
        \E j, k \in 1..Len(config_checklist) :
            /\ j # k
            /\ i \in C20_SubChecks(config_checklist[j])
            /\ i \in C20_SubChecks(config_checklist[k])}

\* C20: on the populated checks of main, perform_checks on any ordering of the
\* checklist returns, with the same heap as on the list as it is; each rule,
\* whether or not it shares a sub-check with other rules, gets the result it
\* gets when it is evaluated alone; and nothing but result fields differs from
\* the heap before. After perform_checks the results are these
C20_OrderIndependent ==
    /\ pc = "perform_checks"
          => \A l \in C20_Orderings :
                LET r == perform_checks(objs, l)
                IN  /\ r.raised = None
                    /\ r.objs = perform_checks(objs, config_checklist).objs
                    /\ \A j \in 1..Len(l) : r.objs[l[j]].result = ResultOf(l[j])
                    /\ Len(r.objs) = Len(objs)
                    /\ \A i \in 1..Len(objs) :
                          r.objs[i] = [objs[i] EXCEPT !.result = r.objs[i].result]
    /\ Performed
          => \A j \in 1..Len(config_checklist) :
                /\ objs[config_checklist[j]].result # None
                /\ objs[config_checklist[j]].result = ResultOf(config_checklist[j])

\* C20 witness: the checks of X86_64 were evaluated; modules_not_set and
\* iommu_support_is_set are rules of the list and sub-checks of other rules,
\* and rules of the list failed and passed
C20_Witness ==
    /\ pc = "done"
    /\ arch = Some("X86_64")
    /\ C20_Shared = {1, 5}
    /\ Len(config_checklist) = 5
    /\ objs[1].result = Some("FAIL: \"y\"")
    /\ objs[4].result = Some("FAIL: not found")
    /\ objs[5].result = Some("OK")
    /\ IsFAIL(objs[7].result)

\* the call check() of child j of compound id, on the heap as it is
C21_Child(id, j) == check(objs, objs[id].opts[j])

\* child j ends the loop of OR.check: its result is PASS-class, or its check()
\* raised
C21_Stops(id, j) ==
    \/ C21_Child(id, j).raised # None
    \/ IsOK(C21_Child(id, j).objs[objs[id].opts[j]].result)

\* the last child OR.check invokes: the first that ends the loop, or the last
C21_Last(id) ==
    LET n == Len(objs[id].opts)
        S == {j \in 1..n : C21_Stops(id, j)}
    IN  IF S = {} THEN n ELSE Min(S)

\* the invocations of the calls of children i..n of compound id, in this order
RECURSIVE C21_Calls(_, _, _)
C21_Calls(id, i, n) ==
    IF i > n THEN <<>> ELSE C21_Child(id, i).trace \o C21_Calls(id, i + 1, n)

\* C21: on the populated checks, the call check() of any OR invokes check() on
\* its children 1, 2, ... in this order, each once, up to and including the
\* first child whose result is PASS-class (or whose check() raised) and on no
\* child after it; the children before it were evaluated and failed; when no
\* child passes every child is invoked once, in order. The invocations of a run
\* are those of perform_checks
C21_OrInOrder ==
    /\ pc = "perform_checks"
          => \A id \in ORs :
                LET c == check(objs, id)
                    w == C21_Last(id)
                IN  /\ c.trace = <<id>> \o C21_Calls(id, 1, w)
                    /\ \A j \in 1..(w - 1) :
                          IsFAIL(c.objs[objs[id].opts[j]].result)
                    /\ c.raised = None
                          => IF C21_Stops(id, w)
                             THEN IsOK(c.objs[id].result)
                             ELSE /\ w = Len(objs[id].opts)
                                  /\ c.objs[id].result = c.objs[objs[id].opts[1]].result
    /\ check_trace # <<>> => check_trace = perform_checks(objs, config_checklist).trace

\* C21 witness: an OR of three simple checks passed through its second child;
\* the first was invoked and failed, the third was not invoked
C21_Witness ==
    /\ pc = "done"
    /\ Len(objs) = 4
    /\ objs[4].cls = "OR"
    /\ objs[4].opts = <<1, 2, 3>>
    /\ check_trace = <<4, 1, 2>>
    /\ IsFAIL(objs[1].result)
    /\ IsOK(objs[2].result)
    /\ objs[3].result = None

\* auxiliary child j of an AND ends the loop of AND.check: its check() raised or
\* its result is not PASS-class
C22_Stops(id, j) ==
    \/ C21_Child(id, j).raised # None
    \/ ~ IsOK(C21_Child(id, j).objs[objs[id].opts[j]].result)

\* the last child AND.check invokes: the failing (or raising) auxiliary child of
\* highest index, or child 0 (index 1 here) when every auxiliary child passed
C22_Last(id) ==
    LET S == {j \in 2..Len(objs[id].opts) : C22_Stops(id, j)}
    IN  IF S = {} THEN 1 ELSE CHOOSE j \in S : \A k \in S : j >= k

\* the invocations of the calls of children n, n-1, ..., i of compound id
RECURSIVE C22_CallsDown(_, _, _)
C22_CallsDown(id, n, i) ==
    IF n < i THEN <<>> ELSE C21_Child(id, n).trace \o C22_CallsDown(id, n - 1, i)

\* C22: on the populated checks, the call check() of any AND invokes check() on
\* its children in decreasing index order, last child first, down to and
\* including the first auxiliary child that does not pass, and on no child of
\* lower index: child 0 is invoked only when every auxiliary child passed, and
\* then gives the result; otherwise the result names the failing auxiliary
\* child of highest index (or is the version text this child failed with)
C22_AndInReverseOrder ==
    pc = "perform_checks"
       => \A id \in ANDs :
             LET c == check(objs, id)
                 w == C22_Last(id)
                 n == Len(objs[id].opts)
                 aux == objs[id].opts[w]
             IN  /\ c.trace = <<id>> \o C22_CallsDown(id, n, w)
                 /\ \A j \in (w + 1)..n : IsOK(c.objs[objs[id].opts[j]].result)
                 /\ c.raised = None
                       => IF w = 1
                          THEN c.objs[id].result = c.objs[objs[id].opts[1]].result
                          ELSE /\ IsFAIL(c.objs[id].result)
                               /\ \/ c.objs[id].result \in
                                        {Some("FAIL: " \o Name(objs, aux) \o " not \""
                                              \o FormatExpected(Expected(objs, aux)) \o "\""),
                                         Some("FAIL: " \o Name(objs, aux) \o " not present")}
                                  \/ /\ StartsWith(c.objs[aux].result[1], "FAIL: version")
                                     /\ c.objs[id].result = c.objs[aux].result

\* C22 witness: in an AND of three simple checks the last child passed and the
\* second failed; the first child, child 0, was not invoked
C22_Witness ==
    /\ pc = "done"
    /\ Len(objs) = 4
    /\ objs[4].cls = "AND"
    /\ objs[4].opts = <<1, 2, 3>>
    /\ check_trace = <<4, 3, 2>>
    /\ IsOK(objs[3].result)
    /\ IsFAIL(objs[2].result)
    /\ objs[1].result = None
    /\ objs[4].result = Some("FAIL: " \o objs[2].name \o " not \"y\"")

\* the checks reachable from the checklist: its entries and their sub-checks at
\* any depth
C23_Reachable == UNION {C20_SubChecks(config_checklist[j]) : j \in 1..Len(config_checklist)}

\* check i holds the data of its kind: the value of the parsed map for its name
\* (None when the map has no such key), or the detected version
C23_Bound(i) ==
    CASE objs[i].cls = "KconfigCheck" ->
             /\ StartsWith(objs[i].name, "CONFIG_")
             /\ objs[i].state = Get(parsed_kconfig_options, objs[i].name)
      [] objs[i].cls = "CmdlineCheck" ->
             /\ cmdline_file # None
             /\ objs[i].state = Get(parsed_cmdline_options, objs[i].name)
      [] objs[i].cls = "VersionCheck" ->
             /\ Len(kernel_version) = 2
             /\ objs[i].ver = kernel_version
      [] OTHER -> TRUE

\* C23: when main is at perform_checks, and from then on, every simple check
\* reachable from the checklist, nested or not, holds the data of its kind, and
\* the parsed maps are those of the whole files; the list has cmdline checks
\* only in a run with a cmdline file; so every check() was invoked on a bound
\* check
C23_PopulatedBeforeChecks ==
    /\ (pc = "perform_checks" \/ Performed)
          => /\ \A i \in C23_Reachable : C23_Bound(i)
             /\ parsed_kconfig_options = parse_kconfig_file(kconfig_file).d
             /\ cmdline_file # None
                   => parsed_cmdline_options = parse_cmdline_file(cmdline_file[1]).d
             /\ kernel_version = detect_version(kconfig_file).ver
    /\ cmdline_file = None
          => \A i \in 1..Len(objs) : objs[i].cls # "CmdlineCheck"
    /\ \A k \in 1..Len(check_trace) :
          check_trace[k] \in C23_Reachable /\ C23_Bound(check_trace[k])

\* C23 witness: main is at perform_checks with ARM64 checks of the three kinds
\* bound, nested ones among them, to values of the files
C23_Witness ==
    /\ pc = "perform_checks"
    /\ arch = Some("ARM64")
    /\ cmdline_file # None
    /\ objs[1].state = Some("is not set")
    /\ objs[7].ver = kernel_version
    /\ \E i \in C23_Reachable \ {config_checklist[j] : j \in 1..Len(config_checklist)} :
          objs[i].cls = "CmdlineCheck" /\ objs[i].state = Some("1")

\* the invocations of check() on entries i.. of the checklist, one call each,
\* in the order of the list; a call invokes the sub-checks it needs
RECURSIVE C24_OneCallEach(_)
C24_OneCallEach(i) ==
    IF i > Len(config_checklist) THEN <<>>
    ELSE check(objs, config_checklist[i]).trace \o C24_OneCallEach(i + 1)

\* main is before the call of perform_checks
C24_BeforeEvaluation ==
    pc \in {"detect_arch", "detect_version", "add_kconfig_checks", "parse_kconfig",
            "populate_kconfig", "populate_version", "parse_cmdline", "populate_cmdline",
            "perform_checks"}

\* a step of the run before perform_checks: parsing, construction, population
C24_PopulationStep == C24_BeforeEvaluation /\ pc # "perform_checks" /\ pc' # pc

\* C24: until perform_checks is called no check has a result and no check() was
\* invoked, so no step of population sets a result; perform_checks is called
\* at most once in a run, from the state where the population passes of the run
\* are complete, and the run never comes back to it; its invocations are one
\* call of check() per entry of the list, in list order, each with the calls of
\* the sub-checks it needs; a check has a result only if it was invoked
C24_TwoPhases ==
    /\ [](C24_BeforeEvaluation
             => /\ check_trace = <<>>
                /\ \A i \in 1..Len(objs) : objs[i].result = None)
    /\ [](pc = "exited" /\ check_trace = <<>>
             => \A i \in 1..Len(objs) : objs[i].result = None)
    /\ [](Performed
             => /\ check_trace = C24_OneCallEach(1)
                /\ \A i \in 1..Len(objs) : objs[i].result # None <=> Invoked(i))
    /\ [][pc' = "perform_checks"
             => /\ pc = IF cmdline_file # None THEN "populate_cmdline"
                                              ELSE "populate_version"
                /\ check_trace = <<>>]_vars
    /\ [][pc = "perform_checks" => pc' = "print_checklist" /\ check_trace' # <<>>]_vars
    /\ [][check_trace' # check_trace => pc = "perform_checks" /\ check_trace = <<>>]_vars
    /\ [][C24_PopulationStep
             => /\ check_trace' = <<>>
                /\ \A i \in 1..Len(objs') : objs'[i].result = None]_vars

\* C24 witness: the run has evaluated the X86_64 list with a cmdline rule: one
\* call per entry in list order, the shared sub-checks invoked inside their
\* parents' calls and as entries of their own, the unneeded child not at all
C24_Witness ==
    /\ pc = "print_checklist"
    /\ config_checklist = <<4, 5, 7, 1, 10>>
    /\ check_trace = <<4, 2, 3, 1, 5, 7, 5, 6, 1, 10, 8>>
    /\ objs[9].result = None

\* C25: after perform_checks has returned, every entry of the checklist, simple
\* or compound, with or without a version check in it, holds one result string,
\* which starts with 'OK' or with 'FAIL' and not with both; so the OK count and
\* the FAIL count of the final score add up to the length of the checklist.
\* Every check that was invoked holds such a result too
C25_OneOutcomeEach ==
    Performed
       => /\ \A j \in 1..Len(config_checklist) :
                LET r == objs[config_checklist[j]].result
                IN  /\ r # None
                    /\ Len(r) = 1
                    /\ StartsWith(r[1], "OK") \/ StartsWith(r[1], "FAIL")
                    /\ ~ (StartsWith(r[1], "OK") /\ StartsWith(r[1], "FAIL"))
          /\ ok_count(objs, config_checklist) + fail_count(objs, config_checklist)
                = Len(config_checklist)
          /\ \A i \in 1..Len(objs) :
                Invoked(i) => IsOK(objs[i].result) \/ IsFAIL(objs[i].result)

\* C25 witness: the X86_64 list was evaluated; a simple entry passed, the
\* INTEL_IOMMU rule failed for its auxiliary child, and the score counts 2 OK
\* and 2 FAIL
C25_Witness ==
    /\ pc = "done"
    /\ arch = Some("X86_64")
    /\ Len(config_checklist) = 4
    /\ objs[1].result = Some("OK: not found")
    /\ objs[7].result = Some("FAIL: CONFIG_IOMMU_SUPPORT not \"y\"")
    /\ ok_count(objs, config_checklist) = 2
    /\ fail_count(objs, config_checklist) = 2

\* what the --config file says about CONFIG_LDISC_AUTOLOAD: it has the line that
\* disables it, a line that gives it a value, or no line that mentions it
C26_Disabled ==
    \E j \in 1..Len(kconfig_file) :
        Strip(kconfig_file[j]) = "# CONFIG_LDISC_AUTOLOAD is not set"

C26_Enabled(v) ==
    \E j \in 1..Len(kconfig_file) :
        Strip(kconfig_file[j]) = "CONFIG_LDISC_AUTOLOAD=" \o v

C26_NotMentioned ==
    \A j \in 1..Len(kconfig_file) : IndexOf(kconfig_file[j], "LDISC_AUTOLOAD", 1) = 0

\* C26: when the run has parsed the files, populated and evaluated the list,
\* the rule AND(KconfigCheck LDISC_AUTOLOAD 'is not set', KconfigCheck
\* LDISC_AUTOLOAD) (object 22, children 20 and 21) holds 'OK' if the file has
\* the line '# CONFIG_LDISC_AUTOLOAD is not set', 'FAIL: CONFIG_LDISC_AUTOLOAD
\* not present' if the file does not mention the option, and 'FAIL: "y"', the
\* observed value, if the option is enabled as y
C26_LdiscAutoload ==
    Performed
       => /\ C26_Disabled \/ C26_Enabled("y") \/ C26_NotMentioned
          /\ C26_Disabled => objs[22].result = Some("OK")
          /\ C26_NotMentioned
                => objs[22].result = Some("FAIL: CONFIG_LDISC_AUTOLOAD not present")
          /\ C26_Enabled("y") => objs[22].result = Some("FAIL: \"y\"")

\* C26 witness: the rule passed on a file with the disabling line
C26_Witness ==
    /\ pc = "done"
    /\ kconfig_file = <<"CONFIG_RODATA_DEFAULT=y\n", "# CONFIG_LDISC_AUTOLOAD is not set\n">>
    /\ objs[20].state = Some("is not set")
    /\ objs[21].result = Some("OK: is present")
    /\ objs[22].result = Some("OK")

====
